---- MODULE Spec2Model ----
(***************************************************************************)
(* A model of the Nix flake explorer's query engine (NixRunner) and of    *)
(* the tree resolver built on it (FlakeTreeProvider, FlakeNode), and of    *)
(* the expansion tracker and smart refresh the extension drives.           *)
(*                                                                         *)
(* JavaScript runs one callback (macrotask) at a time and drains the      *)
(* promise continuations it released (microtasks) before the next one.    *)
(* Every action below is one such callback, or one such continuation,     *)
(* from start to end.                                                      *)
(*                                                                         *)
(* Objects nothing refers to any more (a promise whose result was read,   *)
(* a closed process whose promise is gone) leave the state, as they leave *)
(* the heap.                                                               *)
(***************************************************************************)
EXTENDS Integers, Sequences, FiniteSets, TLC

\* ------------------------------------------------------------------ bounds
\* Calls of NixRunner.run() made by a client of the runner (RunnerSpec).
MaxReq == 2
\* Calls of FlakeTreeProvider.getChildren() in progress at once; one more
\* where the tree view asks again before it has its answer (OverlapSpec).
MaxCalls == 1
\* Processes that were sent SIGTERM by their timeout and have not closed yet.
MaxLingering == 1
\* The clock advances TickMs at a time, at most MaxTicks times.
TickMs == 60001
MaxTicks == 1
\* The file watcher's clock advances at most MaxWatchSteps times.
MaxWatchSteps == 6
\* How far beyond the cache's maximum age the clock of CacheSpec goes.
MaxOverAge == 1
\* Parts of an attribute path.
MaxParts == 3
\* Children that applyFilter is given at once.
MaxChildren == 2
\* File events in one burst.
MaxBurst == 3
\* The completion requests of the search view, and the status updates
\* issued.
MaxRequests == 2
MaxUpdates == 52

\* ------------------------------------------------------------- the runner
VARIABLES
    reqs,             \* the calls of run(): id -> arguments and promise
    procs,            \* the spawned nix processes: id -> ChildProcess
    activeProcesses,  \* NixRunner.activeProcesses: processKey -> id in procs
    debounceTimers    \* NixRunner.debounceTimers: processKey -> id in reqs

runnerVars == <<reqs, procs, activeProcesses, debounceTimers>>

\* ------------------------------------------------------ the tree provider
VARIABLES
    flake,             \* what the flake at flakePath holds: the evaluator reads it
    flakePath,         \* FlakeTreeProvider.flakePath
    rootPath,          \* the setting nixFlakeExplorer.rootPath, as segments
    rootNode,          \* FlakeTreeProvider.rootNode: defined or not
    nodes,             \* the FlakeNode objects the tree view holds, by attrPath
    lastGoodChildren,  \* FlakeTreeProvider.lastGoodChildren: attrPath -> children
    prefetchCache,     \* FlakeTreeProvider.prefetchCache: attrPath -> children
    prefetchInProgress,\* FlakeTreeProvider.prefetchInProgress
    knownPaths,        \* FlakeTreeProvider.knownPaths
    allPaths,          \* SearchProvider.allPaths, fed by onPathIndexed
    pathTree,          \* SearchProvider.pathTree: parent -> the paths below it
    calls,             \* the calls of getChildren() in progress, oldest first
    fetched,           \* history: attrPath -> the children its last successful fetch gave
    now                \* Date.now()

providerVars ==
    <<flake, flakePath, rootPath, rootNode, nodes, lastGoodChildren, prefetchCache,
      prefetchInProgress, knownPaths, allPaths, pathTree, calls, fetched, now>>

\* --------------------------------------------- the expansion-aware provider
VARIABLES
    expandedPaths,     \* the paths expanded in the tree view, in insertion order
    metadataCache,     \* path -> the cached metadata of the node
    refetched,         \* history: the fetches the last smart refresh re-issued
    lastEvent          \* history: the last event the tracker handled, and the
                       \* paths that were cached when it arrived

trackerVars == <<expandedPaths, metadataCache, refetched, lastEvent>>

\* ------------------------------------------------------- the file watcher
VARIABLES
    activation,       \* extension.ts: whether activate() has run and has set
                      \* nixRunner, treeProvider and fileWatcher, and the
                      \* error messages it has shown
    debounceTimer,    \* extension.ts debounceTimer: [armed, at]
    watched           \* history: time of the last file event (-1: none yet),
                      \* the refreshes the watcher has triggered since, and
                      \* the events of the burst the last event belongs to

watcherVars == <<activation, debounceTimer, watched>>

\* ------------------------------------------------- the pure functions
VARIABLES
    attrPathParts,    \* the parts of the attribute path a query is built for
    queryApply,        \* the apply expression of the query
    evalArgs,         \* what buildEvalArgs has returned for them
    filterPath,       \* FlakeTreeProvider.filterPath
    unfiltered,       \* the children that applyFilter is given
    filtered,         \* what applyFilter has returned for them
    segments          \* what SearchProvider.splitPath has returned for the path

utilVars == <<attrPathParts, queryApply, evalArgs, filterPath, unfiltered, filtered,
              segments>>

\* ------------------------------------------- the search and status views
VARIABLES
    search,           \* SearchProvider: nixdAvailable, nixdDebounceTimer,
                      \* pendingNixdRequest, the completion requests made, and
                      \* the query of the last search change
    shown,            \* the suggestions the search view was last given
    view,             \* StatusViewProvider.view: resolved or not
    statusHistory,    \* StatusViewProvider.statusHistory
    posted,           \* the last message posted to the status webview
    updates           \* history: the number of updates issued, and those
                      \* since the last clear(), oldest first

viewVars == <<search, shown, view, statusHistory, posted, updates>>

vars == <<runnerVars, providerVars, trackerVars, watcherVars, utilVars, viewVars>>

\* ------------------------------------------------------------- NixRunner
\* run()'s `key` parameter is optional.
NoKey == [kind |-> "undefined", path |-> <<>>]

Key(kind, path) == [kind |-> kind, path |-> path]

\* `key ?? args.join(' ')`
processKeyOf(args, key) ==
    IF key = NoKey THEN [kind |-> "args", path |-> args] ELSE key

\* NixEvalResult.data when stdout was empty
NullData == [t |-> "null", v |-> <<>>]

\* What a process wrote to stdout: nothing, a JSON text or some other text.
\* `stdout.trim() ? JSON.parse(stdout) : null`, and the raw text when the
\* text is no JSON.
parseStdout(out) ==
    CASE out.fmt = "empty" -> NullData
      [] out.fmt = "json"  -> [t |-> "json", v |-> out.val]
      [] OTHER             -> [t |-> "text", v |-> out.val]

\* `stderr.trim() || `Exit code ${code}``
ExitCodeMsg == "Exit code"
failureMessage(stderr) == IF stderr = "" THEN ExitCodeMsg ELSE stderr

TimedOutMsg == "Command timed out"

\* The runner's fields as one value, so that the steps a callback makes in
\* sequence (cancel, then spawn; one cancel per key) compose.
RunnerState ==
    [reqs |-> reqs, procs |-> procs,
     activeProcesses |-> activeProcesses, debounceTimers |-> debounceTimers]

SetRunner(S) ==
    /\ reqs' = S.reqs
    /\ procs' = S.procs
    /\ activeProcesses' = S.activeProcesses
    /\ debounceTimers' = S.debounceTimers

\* Map.delete(key)
MapDelete(m, key) == [k \in (DOMAIN m) \ {key} |-> m[k]]

\* Map.set(key, value)
MapSet(m, key, value) ==
    [k \in (DOMAIN m) \cup {key} |-> IF k = key THEN value ELSE m[k]]

\* The id of the next call of run(): the least one not in use.
FreshReq(S) ==
    CHOOSE i \in 1..(Cardinality(DOMAIN S.reqs) + 1) :
        i \notin DOMAIN S.reqs /\ \A j \in 1..(i - 1) : j \in DOMAIN S.reqs

\* resolve(result): a promise settles once, later resolve() calls are
\* ignored, and so is one on a promise nobody holds any more.
resolvePromise(S, r, success, data, error) ==
    IF r \notin DOMAIN S.reqs \/ S.reqs[r].settled THEN S
    ELSE [S EXCEPT !.reqs[r].settled = TRUE,
                   !.reqs[r].success = success,
                   !.reqs[r].data = data,
                   !.reqs[r].error = error]

\* proc.kill('SIGTERM'): `killed` becomes true; `by` remembers who sent it.
kill(S, p, who) == [S EXCEPT !.procs[p].killed = TRUE, !.procs[p].by = who]

\* A cancel that stops the processes and clears the timers of every key.
cancelEveryKey(S, key) ==
    LET active == {S.activeProcesses[k] : k \in DOMAIN S.activeProcesses}
        timed == {S.debounceTimers[k] : k \in DOMAIN S.debounceTimers}
    IN  [S EXCEPT !.procs = [p \in DOMAIN S.procs |->
                                IF p \in active /\ ~S.procs[p].killed
                                THEN [S.procs[p] EXCEPT !.killed = TRUE, !.by = "cancel"]
                                ELSE S.procs[p]],
                  !.reqs = [r \in DOMAIN S.reqs |->
                                IF r \in timed
                                THEN [S.reqs[r] EXCEPT !.timer = "cleared"]
                                ELSE S.reqs[r]],
                  !.activeProcesses = << >>,
                  !.debounceTimers = << >>]

\* cancel() with the debounce timer left alone: a slip the claims must notice.
cancelKeepsTimer(S, key) ==
    IF key \in DOMAIN S.activeProcesses /\ ~S.procs[S.activeProcesses[key]].killed
    THEN [kill(S, S.activeProcesses[key], "cancel")
            EXCEPT !.activeProcesses = MapDelete(S.activeProcesses, key)]
    ELSE S

\* NixRunner.cancel(key)
cancel(S, key) ==
    LET S1 == IF key \in DOMAIN S.activeProcesses
                 /\ ~S.procs[S.activeProcesses[key]].killed
              THEN [kill(S, S.activeProcesses[key], "cancel")
                      EXCEPT !.activeProcesses = MapDelete(S.activeProcesses, key)]
              ELSE S
    IN  IF key \in DOMAIN S1.debounceTimers
        THEN [S1 EXCEPT !.reqs[S1.debounceTimers[key]].timer = "cleared",
                        !.debounceTimers = MapDelete(S1.debounceTimers, key)]
        ELSE S1

\* NixRunner.cancelAll(): cancel(key) for every key of activeProcesses.
RECURSIVE cancelEach(_, _)
cancelEach(S, keys) ==
    IF keys = {} THEN S
    ELSE LET k == CHOOSE x \in keys : TRUE
         IN  cancelEach(cancel(S, k), keys \ {k})

cancelAll(S) == cancelEach(S, DOMAIN S.activeProcesses)

\* NixRunner.executeNix up to the end of the promise executor: the process
\* is spawned with the arguments of the call, registered under its key, and
\* its timeout is armed.
executeNix(S, r) ==
    LET p == Len(S.procs) + 1
        proc == [req |-> r, key |-> S.reqs[r].key, args |-> S.reqs[r].args,
                 killed |-> FALSE, by |-> "nobody", st |-> "running",
                 timeout |-> "armed"]
    IN  [S EXCEPT !.procs = [i \in 1..p |-> IF i < p THEN S.procs[i] ELSE proc],
                  !.activeProcesses = MapSet(S.activeProcesses, S.reqs[r].key, p)]

\* NixRunner.run(args, options, key, debounce); the new call gets the id r.
\* History kept for the claims: `superseded` marks the unsettled calls of the
\* same key, `prev` the call whose debounce timer this call found pending.
run(S, r, args, key, debounce) ==
    LET pk == processKeyOf(args, key)
        marked == [i \in DOMAIN S.reqs |->
                     IF S.reqs[i].key = pk /\ ~S.reqs[i].settled
                     THEN [S.reqs[i] EXCEPT !.superseded = TRUE]
                     ELSE S.reqs[i]]
        new == [key |-> pk, args |-> args, debounce |-> debounce,
                timer |-> IF debounce THEN "pending" ELSE "none",
                settled |-> FALSE, success |-> FALSE, data |-> NullData, error |-> "",
                superseded |-> FALSE,
                prev |-> IF pk \in DOMAIN S.debounceTimers
                         THEN S.debounceTimers[pk] ELSE 0]
        S1 == cancel([S EXCEPT !.reqs = marked], pk)
        S2 == [S1 EXCEPT !.reqs = MapSet(S1.reqs, r, new)]
    IN  IF debounce
        THEN [S2 EXCEPT !.debounceTimers = MapSet(S2.debounceTimers, pk, r)]
        ELSE executeNix(S2, r)

\* The debounce callback of call r: `this.debounceTimers.delete(processKey)`,
\* then executeNix.
debounceFired(S, r) ==
    executeNix([S EXCEPT !.reqs[r].timer = "fired",
                         !.debounceTimers = MapDelete(S.debounceTimers, S.reqs[r].key)],
               r)

\* The process object p is garbage: the processes are procs[1], procs[2],
\* ... in the order they were spawned, and activeProcesses follows.
removeProc(S, p) ==
    [S EXCEPT !.procs = [i \in 1..(Len(S.procs) - 1) |->
                           IF i < p THEN S.procs[i] ELSE S.procs[i + 1]],
              !.activeProcesses = [k \in DOMAIN S.activeProcesses |->
                           IF S.activeProcesses[k] > p THEN S.activeProcesses[k] - 1
                           ELSE S.activeProcesses[k]]]

\* A process that has closed: its timeout is cleared and the registration of
\* its key is deleted. Its record stays while its call's promise is held.
closed(S, p) ==
    LET S1 == [S EXCEPT !.activeProcesses = MapDelete(S.activeProcesses, S.procs[p].key)]
    IN  IF S.procs[p].req \in DOMAIN S.reqs
        THEN [S1 EXCEPT !.procs[p].st = "closed",
                        !.procs[p].timeout =
                            IF S.procs[p].timeout = "armed" THEN "cleared"
                            ELSE S.procs[p].timeout]
        ELSE removeProc(S1, p)

\* proc.on('close'): clearTimeout, activeProcesses.delete(processKey), and
\* the promise is resolved by the exit code.
onClose(S, p, code, out, stderr) ==
    IF code = 0
    THEN resolvePromise(closed(S, p), S.procs[p].req, TRUE, parseStdout(out), "")
    ELSE resolvePromise(closed(S, p), S.procs[p].req, FALSE, NullData,
                        failureMessage(stderr))

\* proc.on('error')
onError(S, p, msg) ==
    resolvePromise(closed(S, p), S.procs[p].req, FALSE, NullData, msg)

\* The timeout callback of process p.
onTimeout(S, p) ==
    LET S1 == [S EXCEPT !.procs[p].timeout = "fired"]
    IN  IF ~S.procs[p].killed
        THEN resolvePromise(kill(S1, p, "timeout"),
                            S.procs[p].req, FALSE, NullData, TimedOutMsg)
        ELSE S1

\* The caller has read the result of call r: the promise is garbage, and so
\* is the process of the call if it has closed; if it still runs, it
\* resolves a promise nobody holds (req 0).
release(S, r) ==
    LET S1 == [S EXCEPT !.reqs = MapDelete(S.reqs, r)]
        ps == {p \in DOMAIN S.procs : S.procs[p].req = r}
    IN  IF ps = {} THEN S1
        ELSE LET p == CHOOSE q \in ps : TRUE
             IN  IF S.procs[p].st = "closed" THEN removeProc(S1, p)
                 ELSE [S1 EXCEPT !.procs[p].req = 0]

\* The calls of run() with an id above r get the id below.
shiftReqs(S, r) ==
    LET down(i) == IF i > r THEN i - 1 ELSE i
    IN  [S EXCEPT !.reqs = [i \in {down(j) : j \in DOMAIN S.reqs} |->
                              IF i >= r THEN S.reqs[i + 1] ELSE S.reqs[i]],
                  !.procs = [p \in DOMAIN S.procs |->
                              [S.procs[p] EXCEPT !.req = down(@)]],
                  !.debounceTimers = [k \in DOMAIN S.debounceTimers |->
                              down(S.debounceTimers[k])]]

\* ------------------------------------------------- the runner's environment
\* A client of the runner calls run() with one of two argument lists under
\* an explicit key, or with no key at all, debounced or not.
ArgsA == <<"derivation", "show", "a">>
ArgsB == <<"derivation", "show", "b">>
KeyA == Key("drvShow", <<"a">>)
RunnerCalls == {<<ArgsA, KeyA>>, <<ArgsB, KeyA>>, <<ArgsA, NoKey>>}
RunnerKeys == {processKeyOf(c[1], c[2]) : c \in RunnerCalls}

\* What the evaluator may print for a query of the given kind.
Json(v) == [fmt |-> "json", val |-> v]
RawText(v) == [fmt |-> "raw", val |-> v]
EmptyOut == [fmt |-> "empty", val |-> <<>>]

\* One element of a list, as getListElementsInfo reports it.
ListElem(i, name, isDrv) == [index |-> i, name |-> name, isDrv |-> isDrv]

\* A flake: its outputs, and the value of the attribute the tree view
\* explores (a set with its names, a list with its elements, or a string).
\* `silent` is an evaluator that exits 0 having printed nothing for the
\* names and the outputs.
Flake(type, isDrv, names, elems, silent) ==
    [type |-> type, isDrv |-> isDrv, attrNames |-> names, listElems |-> elems,
     outputs |-> <<"b", "a">>, silent |-> silent]

Flakes ==
    { Flake("set", FALSE, <<"y", "x">>, <<>>, FALSE),
      Flake("set", TRUE, <<"y", "x">>, <<>>, FALSE),
      Flake("set", FALSE, <<>>, <<>>, FALSE),
      Flake("set", FALSE, <<>>, <<>>, TRUE),
      Flake("list", FALSE, <<>>, <<ListElem(0, "git", TRUE), ListElem(1, "1", FALSE)>>, FALSE),
      Flake("list", FALSE, <<>>, <<>>, FALSE),
      Flake("string", FALSE, <<>>, <<>>, FALSE) }

\* What a process of the given kind of query prints when it exits 0.
Stdout(f, kind) ==
    CASE kind = "flakeShow" -> IF f.silent THEN EmptyOut ELSE Json(f.outputs)
      [] kind = "type"      -> Json(<<f.type>>)
      [] kind = "isDrv"     -> Json(<<IF f.isDrv THEN "true" ELSE "false">>)
      [] kind = "attrNames" -> IF f.silent THEN EmptyOut ELSE Json(f.attrNames)
      [] kind = "listElems" -> Json(f.listElems)
      [] kind = "value"     -> Json(<<"v">>)
      [] OTHER              -> RawText(<<"txt">>)

\* The kinds of query slow enough to run into the timeout.
SlowKinds == {"flakeShow", "type", "drvShow", "args"}

\* stderr of a failing process, trimmed: empty for the runner's client,
\* a message for the provider's queries.
RunnerStderrs == {""}
ProviderStderrs == {"boom"}

\* err.message of a spawn error
SpawnErrMsg == "spawn nix ENOENT"

\* The configured root path is empty or one segment; the tree view holds one
\* expandable node below the root.
RootPaths == {<<>>, <<"cfg">>}
ElemNames == {"a"}
Elems == {rootPath \o <<n>> : n \in ElemNames}
\* The setting nixFlakeExplorer.prefetchPaths: one sub-path, the node the
\* tree view holds.
PrefetchPaths == <<"a">>
RootElem == [isRoot |-> TRUE, path |-> <<>>]
Elem(path) == [isRoot |-> FALSE, path |-> path]

\* ------------------------------------------------------------- FlakeNode
\* new FlakeNode(label, attrPath, nodeType, ...): the constructor ends with
\* updateAppearance(), which sets the collapsible state from the node type.
FlakeNode(label, attrPath, nodeType) ==
    [label |-> label, attrPath |-> attrPath, nodeType |-> nodeType,
     collapsible |-> nodeType \in {"attrset", "list", "listElement", "derivation"},
     listIndex |-> -1, errorMessage |-> ""]

\* createErrorNode(message, parent): attrPath is the parent's, or '' without one.
createErrorNode(message, parentPath) ==
    [FlakeNode("Error", parentPath, "error") EXCEPT !.errorMessage = message]

\* FlakeNode.createChild(name, nodeType), without a list index.
createChild(parentPath, name, nodeType) ==
    FlakeNode(name, parentPath \o <<name>>, nodeType)

\* FlakeNode.cache is undefined until something is cached.
NoCache ==
    [defined |-> FALSE, hasChildren |-> FALSE, children |-> <<>>,
     hasValue |-> FALSE, value |-> <<>>, timestamp |-> 0]

\* The state of a node object that getChildren reads and writes.
NewNodeState == [nodeType |-> "attrset", cache |-> NoCache, errorMessage |-> ""]

MaxAgeMs == 60000

\* A freshness check that lets the cache expire one millisecond early.
getCachedChildrenEarly(node, t) ==
    IF ~(node.cache.defined /\ node.cache.hasChildren)
    THEN [hit |-> FALSE, children |-> <<>>]
    ELSE IF t - node.cache.timestamp >= MaxAgeMs
         THEN [hit |-> FALSE, children |-> <<>>]
         ELSE [hit |-> TRUE, children |-> node.cache.children]

\* FlakeNode.getCachedChildren(): [hit, children].
getCachedChildren(node, t) ==
    IF ~(node.cache.defined /\ node.cache.hasChildren)
    THEN [hit |-> FALSE, children |-> <<>>]
    ELSE IF t - node.cache.timestamp > MaxAgeMs
         THEN [hit |-> FALSE, children |-> <<>>]
         ELSE [hit |-> TRUE, children |-> node.cache.children]

\* FlakeNode.cacheChildren(children)
cacheChildren(node, children, t) ==
    [node EXCEPT !.cache.defined = TRUE, !.cache.hasChildren = TRUE,
                 !.cache.children = children, !.cache.timestamp = t]

\* FlakeNode.setError(message)
setError(node, message) ==
    [node EXCEPT !.errorMessage = message, !.nodeType = "error"]

\* ------------------------------------------------------ FlakeTreeProvider
\* `a || b` on strings
orDefault(a, b) == IF a = "" THEN b ELSE a

\* Array.prototype.sort() on attribute names: insertion into a sorted list.
NameRank(n) == CASE n = "a" -> 1 [] n = "b" -> 2 [] n = "x" -> 3 [] n = "y" -> 4 [] OTHER -> 5

RECURSIVE insertSorted(_, _)
insertSorted(sorted, n) ==
    IF sorted = <<>> THEN <<n>>
    ELSE IF NameRank(n) < NameRank(Head(sorted))
         THEN <<n>> \o sorted
         ELSE <<Head(sorted)>> \o insertSorted(Tail(sorted), n)

\* The names as the evaluator returned them.
unsortedNames(names) == names

RECURSIVE sortNames(_)
sortNames(names) ==
    IF names = <<>> THEN <<>>
    ELSE insertSorted(sortNames(Tail(names)), Head(names))

\* `${parent.attrPath}.[${elem.index}]`
IndexSegment(i) == <<"[0]", "[1]", "[2]">>[i + 1]

\* The arguments of a query: the evaluator command for its kind and path.
QueryArgs(kind, path) == <<"nix", kind>> \o path

\* String.prototype.toLowerCase, symbol by symbol.
lowerCase(ch) == CASE ch = "A" -> "a" [] ch = "B" -> "b" [] OTHER -> ch
toLowerCase(str) == [i \in DOMAIN str |-> lowerCase(str[i])]

\* String.prototype.startsWith and String.prototype.includes.
strStartsWith(str, prefix) ==
    Len(prefix) <= Len(str) /\ SubSeq(str, 1, Len(prefix)) = prefix
includes(str, sub) ==
    \E i \in 0..(Len(str) - Len(sub)) : SubSeq(str, i + 1, i + Len(sub)) = sub

\* A conversion that leaves the root path in front.
keepAbsolutePath(absolutePath) == absolutePath

\* FlakeTreeProvider.toRelativePath
toRelativePath(absolutePath) ==
    IF rootPath = <<>> THEN absolutePath
    ELSE IF strStartsWith(absolutePath, rootPath \o <<".">>)
    THEN SubSeq(absolutePath, Len(rootPath) + 2, Len(absolutePath))
    ELSE IF absolutePath = rootPath THEN <<>>
    ELSE absolutePath

\* The predicate of children.filter(...) in applyFilter.
matchesFilter(child) ==
    LET filterLower == toLowerCase(filterPath)
        childPathLower == toLowerCase(toRelativePath(child.attrPath))
        childLabelLower == toLowerCase(child.label)
    IN  \/ childPathLower = filterLower
        \/ strStartsWith(filterLower, childPathLower \o <<".">>)
        \/ strStartsWith(childPathLower, filterLower \o <<".">>)
        \/ strStartsWith(childPathLower, filterLower)
        \/ includes(childLabelLower, filterLower)
        \/ includes(filterLower, childLabelLower)

\* FlakeTreeProvider.applyFilter(children). The filter is empty where the
\* tree is resolved; where it is not, labels and paths are strings of
\* symbols, the paths dotted.
applyFilter(children) ==
    IF filterPath = <<>> THEN children
    ELSE SelectSeq(children, matchesFilter)

\* The message of the TypeError thrown when the evaluator's answer is null.
TypeErrMsg == "TypeError"

\* The provider's fields and the runner's as one value.
ProviderState ==
    [S |-> RunnerState, nodes |-> nodes, lastGoodChildren |-> lastGoodChildren,
     knownPaths |-> knownPaths, allPaths |-> allPaths, pathTree |-> pathTree,
     calls |-> calls, rootNode |-> rootNode,
     prefetchCache |-> prefetchCache, prefetchInProgress |-> prefetchInProgress,
     fetched |-> fetched]

SetProvider(P) ==
    /\ SetRunner(P.S)
    /\ nodes' = P.nodes
    /\ lastGoodChildren' = P.lastGoodChildren
    /\ knownPaths' = P.knownPaths
    /\ allPaths' = P.allPaths
    /\ pathTree' = P.pathTree
    /\ calls' = P.calls
    /\ rootNode' = P.rootNode
    /\ prefetchCache' = P.prefetchCache
    /\ prefetchInProgress' = P.prefetchInProgress
    /\ fetched' = P.fetched

\* A call of getChildren that has just begun (kind "getChildren"), or the
\* task that prefetches one path (kind "prefetch").
NewCall ==
    [kind |-> "getChildren", pc |-> "start", isRoot |-> FALSE, path |-> <<>>, req |-> 0,
     self |-> NewNodeState, ret |-> <<>>, threw |-> FALSE, failed |-> "",
     hadCancel |-> FALSE, after |-> {}, stale |-> FALSE, issued |-> <<>>,
     preRefresh |-> FALSE]

\* The node object a call works on: the element, or the root node it made.
NodeOf(P, c) ==
    IF P.calls[c].isRoot THEN P.calls[c].self ELSE P.nodes[P.calls[c].path]

SetNode(P, c, node) ==
    IF P.calls[c].isRoot THEN [P EXCEPT !.calls[c].self = node]
    ELSE [P EXCEPT !.nodes[P.calls[c].path] = node]

\* SearchProvider.toRelativePath, on the segments of the path.
relativePath(absolutePath) ==
    IF rootPath = <<>> THEN absolutePath
    ELSE IF Len(absolutePath) > Len(rootPath)
            /\ SubSeq(absolutePath, 1, Len(rootPath)) = rootPath
    THEN SubSeq(absolutePath, Len(rootPath) + 1, Len(absolutePath))
    ELSE IF absolutePath = rootPath THEN <<>>
    ELSE absolutePath

\* The loop of SearchProvider.indexPath over the parts of the path: part i
\* puts the first i parts below the first i - 1.
RECURSIVE addToTree(_, _, _)
addToTree(tree, parts, i) ==
    IF i > Len(parts) THEN tree
    ELSE LET parent == SubSeq(parts, 1, i - 1)
             current == SubSeq(parts, 1, i)
             below == IF parent \in DOMAIN tree THEN tree[parent] ELSE {}
         IN  addToTree(MapSet(tree, parent, below \cup {current}), parts, i + 1)

\* SearchProvider.indexPath(absolutePath), the listener of onPathIndexed.
searchIndexPath(P, absolutePath) ==
    LET relative == relativePath(absolutePath)
    IN  IF absolutePath = <<>> \/ relative = <<>> THEN P
        ELSE [P EXCEPT !.allPaths = P.allPaths \cup {relative},
                       !.pathTree = addToTree(P.pathTree, relative, 1)]

\* FlakeTreeProvider.indexPath(attrPath): a path not known yet is added to
\* knownPaths and onPathIndexed fires.
indexPath(P, path) ==
    IF path # <<>> /\ path \notin P.knownPaths
    THEN searchIndexPath([P EXCEPT !.knownPaths = P.knownPaths \cup {path}], path)
    ELSE P

RECURSIVE indexChildren(_, _)
indexChildren(P, children) ==
    IF children = <<>> THEN P
    ELSE indexChildren(indexPath(P, Head(children).attrPath), Tail(children))

\* History kept for the claims: the query the call awaits was canceled, that
\* is, cancel() sent SIGTERM to its process.
AwaitCanceled(P, c) ==
    \E p \in DOMAIN P.S.procs :
        P.S.procs[p].req = P.calls[c].req /\ P.S.procs[p].by = "cancel"

\* A nixRunner query of the call: run(args, {cwd}, `${kind}:${attrPath}`),
\* and the call waits for its promise. The promise of calls[c] is reqs[c].
\* History kept for the claims: `issued`, the kinds of query the call has
\* made, in order.
issue(P, c, kind, path) ==
    [P EXCEPT !.S = run(P.S, c, QueryArgs(kind, path), Key(kind, path), FALSE),
              !.calls[c].pc = kind,
              !.calls[c].req = c,
              !.calls[c].issued = @ \o <<kind>>]

\* getChildren returns `ret`: its promise is resolved with it, and the call
\* is no longer in progress. Only what the tree view receives is kept.
return(P, c, ret) ==
    [P EXCEPT !.calls = [d \in DOMAIN P.calls |->
                           IF d = c
                           THEN [NewCall EXCEPT
                                   !.kind = P.calls[c].kind,
                                   !.pc = "done", !.isRoot = P.calls[c].isRoot,
                                   !.path = P.calls[c].path, !.ret = ret,
                                   !.threw = P.calls[c].threw,
                                   !.failed = P.calls[c].failed,
                                   !.issued = P.calls[c].issued]
                           ELSE [P.calls[d] EXCEPT !.after = @ \ {c}]]]

\* lastGoodOrError with the last good children ignored: a slip the claims
\* must notice.
alwaysError(P, path, message) ==
    <<createErrorNode(message, path)>>

\* `lastGoodChildren.get(path)` if there is one, else one error node.
lastGoodOrError(P, path, message) ==
    IF path \in DOMAIN P.lastGoodChildren
    THEN P.lastGoodChildren[path]
    ELSE <<createErrorNode(message, path)>>

\* getChildren's catch block.
catch(P, c, message) ==
    IF ~P.calls[c].isRoot /\ P.calls[c].path \in DOMAIN P.lastGoodChildren
    THEN return([P EXCEPT !.calls[c].threw = TRUE], c,
                P.lastGoodChildren[P.calls[c].path])
    ELSE return([P EXCEPT !.calls[c].threw = TRUE], c,
                <<createErrorNode(message,
                    IF P.calls[c].isRoot THEN <<>> ELSE P.calls[c].path)>>)

\* getChildren after `await this.fetchChildren(element)` (or, at root level,
\* after getRootChildren): index, cache for resilience, filter, return.
\* History kept for the claims: the calls of the same element that began
\* before this one and have not ended are stale once this one has cached.
afterFetch(P, c, children) ==
    IF P.calls[c].isRoot THEN return(P, c, applyFilter(children))
    ELSE LET P1 == indexChildren(P, children)
             P2 == IF Len(children) > 0 /\ NodeOf(P1, c).nodeType # "error"
                   THEN [SetNode(P1, c, cacheChildren(NodeOf(P1, c), children, now))
                           EXCEPT !.lastGoodChildren =
                                      MapSet(P1.lastGoodChildren, P1.calls[c].path, children),
                                  !.calls = [d \in DOMAIN P1.calls |->
                                      IF d \in P1.calls[c].after
                                      THEN [P1.calls[d] EXCEPT !.stale = TRUE]
                                      ELSE P1.calls[d]]]
                   ELSE P1
         IN  return(P2, c, applyFilter(children))

\* History kept for the claims: the fetch of the call's path has succeeded
\* with these children.
succeeded(P, c, children) ==
    [P EXCEPT !.fetched = MapSet(P.fetched, P.calls[c].path, children)]

\* fetchTopLevelOutputs after `await this.nixRunner.flakeShow(...)`.
afterFlakeShow(P, c, result) ==
    IF ~result.success
    THEN afterFetch(P, c,
            IF <<>> \in DOMAIN P.lastGoodChildren
            THEN P.lastGoodChildren[<<>>]
            ELSE <<createErrorNode(orDefault(result.error, "Failed to evaluate flake"), <<>>)>>)
    ELSE IF result.data.t = "null"
    THEN catch(P, c, TypeErrMsg)
    ELSE LET keys == sortNames(result.data.v)
             children == [i \in 1..Len(keys) |-> FlakeNode(keys[i], <<keys[i]>>, "attrset")]
             P1 == indexChildren(P, children)
         IN  afterFetch(succeeded([P1 EXCEPT !.lastGoodChildren =
                                      MapSet(P1.lastGoodChildren, <<>>, children)],
                                  c, children),
                        c, children)

\* afterType where a list is resolved element by element (getListElementInfo
\* per index) and not by the batched query: a slip the claims must notice.
afterTypePerElement(P, c, result) ==
    LET path == P.calls[c].path IN
    IF ~result.success
    THEN afterFetch(P, c,
            lastGoodOrError(P, path, orDefault(result.error, "Failed to evaluate")))
    ELSE IF result.data.t # "null" /\ result.data.v = <<"set">>
    THEN IF path \in DOMAIN P.prefetchCache
         THEN afterFetch(P, c, P.prefetchCache[path])
         ELSE issue(P, c, "isDrv", path)
    ELSE IF result.data.t # "null" /\ result.data.v = <<"list">>
    THEN issue(SetNode(P, c, [NodeOf(P, c) EXCEPT !.nodeType = "list"]),
               c, "listElem", path)
    ELSE issue(SetNode(P, c, [NodeOf(P, c) EXCEPT !.nodeType = "leaf"]),
               c, "value", path)

\* fetchChildren after `await this.nixRunner.getValueType(...)`.
afterType(P, c, result) ==
    LET path == P.calls[c].path IN
    IF ~result.success
    THEN afterFetch(P, c,
            lastGoodOrError(P, path, orDefault(result.error, "Failed to evaluate")))
    ELSE IF result.data.t # "null" /\ result.data.v = <<"set">>
    THEN \* fetchAttrsetChildren: the prefetch cache first, then isDerivation
         IF path \in DOMAIN P.prefetchCache
         THEN afterFetch(P, c, P.prefetchCache[path])
         ELSE issue(P, c, "isDrv", path)
    ELSE IF result.data.t # "null" /\ result.data.v = <<"list">>
    THEN \* fetchListChildren
         issue(SetNode(P, c, [NodeOf(P, c) EXCEPT !.nodeType = "list"]),
               c, "listElems", path)
    ELSE \* a leaf value: fetchLeafValue
         issue(SetNode(P, c, [NodeOf(P, c) EXCEPT !.nodeType = "leaf"]),
               c, "value", path)

\* fetchAttrsetChildren after `await this.nixRunner.isDerivation(...)`.
afterIsDrv(P, c, result) ==
    LET P1 == IF result.success /\ result.data.t # "null"
                 /\ result.data.v = <<"true">>
              THEN SetNode(P, c, [NodeOf(P, c) EXCEPT !.nodeType = "derivation"])
              ELSE P
    IN  issue(P1, c, "attrNames", P.calls[c].path)

\* fetchAttrsetChildren after `await this.nixRunner.getAttrNames(...)`.
afterAttrNames(P, c, result) ==
    LET path == P.calls[c].path IN
    IF ~result.success
    THEN afterFetch(P, c,
            lastGoodOrError(P, path, orDefault(result.error, "Failed to evaluate")))
    ELSE IF result.data.t = "null"
    THEN catch(P, c, TypeErrMsg)
    ELSE LET names == sortNames(result.data.v)
             children == [i \in 1..Len(names) |-> createChild(path, names[i], "attrset")]
         IN  afterFetch(succeeded(P, c, children), c, children)

\* A fetchListChildren that leaves derivations expandable.
afterListElemsAllExpandable(P, c, result) ==
    LET path == P.calls[c].path IN
    IF ~result.success
    THEN afterFetch(P, c,
            lastGoodOrError(P, path, orDefault(result.error, "Failed to evaluate")))
    ELSE IF result.data.t = "null"
    THEN catch(P, c, TypeErrMsg)
    ELSE LET elements == result.data.v
             children == [i \in 1..Len(elements) |->
                    [FlakeNode(elements[i].name,
                               path \o <<IndexSegment(elements[i].index)>>,
                               IF elements[i].isDrv THEN "derivation" ELSE "listElement")
                       EXCEPT !.listIndex = elements[i].index,
                              !.collapsible = TRUE]]
         IN  afterFetch(succeeded(P, c, children), c, children)

\* fetchListChildren after `await this.nixRunner.getListElementsInfo(...)`.
afterListElems(P, c, result) ==
    LET path == P.calls[c].path IN
    IF ~result.success
    THEN afterFetch(P, c,
            lastGoodOrError(P, path, orDefault(result.error, "Failed to evaluate")))
    ELSE IF result.data.t = "null"
    THEN catch(P, c, TypeErrMsg)
    ELSE LET elements == result.data.v
             children == [i \in 1..Len(elements) |->
                    [FlakeNode(elements[i].name,
                               path \o <<IndexSegment(elements[i].index)>>,
                               IF elements[i].isDrv THEN "derivation" ELSE "listElement")
                       EXCEPT !.listIndex = elements[i].index,
                              !.collapsible = ~elements[i].isDrv]]
         IN  afterFetch(succeeded(P, c, children), c, children)

\* fetchLeafValue after `await this.nixRunner.getValue(...)`; fetchChildren
\* then returns no children.
afterValue(P, c, result) ==
    LET node == NodeOf(P, c)
    IN  IF result.success
        THEN afterFetch(succeeded(SetNode(P, c, [node EXCEPT !.cache =
                            [NoCache EXCEPT !.defined = TRUE, !.hasValue = TRUE,
                                            !.value = result.data.v, !.timestamp = now]]),
                                  c, <<>>),
                        c, <<>>)
        ELSE afterFetch(SetNode(P, c, setError(node, orDefault(result.error, "Failed to evaluate"))),
                        c, <<>>)

\* One task of prefetchCommonPaths after `await this.nixRunner.getAttrNames(...)`:
\* on success the children are built, indexed and stored in prefetchCache
\* and lastGoodChildren; a failure and a thrown TypeError are logged only.
afterPrefetch(P, c, result) ==
    LET fullPath == P.calls[c].path IN
    IF result.success /\ result.data.t # "null"
    THEN LET names == sortNames(result.data.v)
             children == [i \in 1..Len(names) |->
                            FlakeNode(names[i], fullPath \o <<names[i]>>, "attrset")]
             P1 == indexPath(indexChildren(P, children), fullPath)
         IN  return([P1 EXCEPT
                       !.prefetchCache = MapSet(P1.prefetchCache, fullPath, children),
                       !.lastGoodChildren = MapSet(P1.lastGoodChildren, fullPath, children)],
                    c, <<>>)
    ELSE return(P, c, <<>>)

\* The continuation of call c once the promise it awaits has settled. The
\* result is read here and nowhere else. History kept for the claims:
\* whether a query of the call was canceled, and the query whose failure
\* the call returns with.
continue(P0, c) ==
    LET result == P0.S.reqs[P0.calls[c].req]
        pc == P0.calls[c].pc
        P == [P0 EXCEPT !.S = release(P0.S, P0.calls[c].req),
                        !.calls[c].req = 0,
                        !.calls[c].hadCancel = @ \/ AwaitCanceled(P0, c),
                        !.calls[c].failed = IF result.success THEN "" ELSE pc]
        Q == CASE P0.calls[c].kind = "prefetch" -> afterPrefetch(P, c, result)
               [] pc = "flakeShow" -> afterFlakeShow(P, c, result)
               [] pc = "type"      -> afterType(P, c, result)
               [] pc = "isDrv"     -> afterIsDrv(P, c, result)
               [] pc = "attrNames" -> afterAttrNames(P, c, result)
               [] pc = "listElems" -> afterListElems(P, c, result)
               [] pc = "value"     -> afterValue(P, c, result)
    IN  IF Q.calls[c].pc = "done" THEN Q ELSE [Q EXCEPT !.calls[c].failed = ""]

\* A getChildren that does not look at flakePath.
getChildrenWithoutRoot(P, elem) ==
    LET path == IF elem.isRoot THEN rootPath ELSE elem.path
        c == Len(P.calls) + 1
        new == [NewCall EXCEPT
                  !.isRoot = elem.isRoot, !.path = path,
                  !.after = {d \in DOMAIN P.calls :
                               /\ P.calls[d].pc # "done"
                               /\ P.calls[d].isRoot = elem.isRoot
                               /\ P.calls[d].path = path}]
        P0 == [P EXCEPT !.calls = [d \in 1..c |-> IF d < c THEN P.calls[d] ELSE new]]
    IN  IF elem.isRoot
        THEN IF rootPath = <<>>
             THEN issue(P0, c, "flakeShow", <<>>)
             ELSE issue([P0 EXCEPT !.rootNode = TRUE], c, "type", rootPath)
        ELSE LET cached == getCachedChildren(P0.nodes[elem.path], now)
             IN  IF cached.hit THEN return(P0, c, applyFilter(cached.children))
                 ELSE issue(P0, c, "type", elem.path)

\* getChildren(element) up to its first await (or its return);
\* elem.isRoot stands for `element === undefined`. History kept for the
\* claims: `after` holds the calls of the same path that are in progress.
getChildren(P, elem) ==
    LET path == IF elem.isRoot THEN rootPath ELSE elem.path
        c == Len(P.calls) + 1
        new == [NewCall EXCEPT
                  !.isRoot = elem.isRoot, !.path = path,
                  !.after = {d \in DOMAIN P.calls :
                               /\ P.calls[d].pc # "done"
                               /\ P.calls[d].isRoot = elem.isRoot
                               /\ P.calls[d].path = path}]
        P0 == [P EXCEPT !.calls = [d \in 1..c |-> IF d < c THEN P.calls[d] ELSE new]]
    IN  IF flakePath = "" THEN return(P0, c, <<>>)
        ELSE IF elem.isRoot
        THEN IF rootPath = <<>>
             THEN issue(P0, c, "flakeShow", <<>>)
             ELSE issue([P0 EXCEPT !.rootNode = TRUE], c, "type", rootPath)
        ELSE LET cached == getCachedChildren(P0.nodes[elem.path], now)
             IN  IF cached.hit THEN return(P0, c, applyFilter(cached.children))
                 ELSE issue(P0, c, "type", elem.path)

\* The tree view has received what call c returned: the call is over, and
\* the younger calls and their promises move up. For a prefetch task the
\* receiver is the `await Promise.all(...)` of prefetchCommonPaths, which
\* goes on once every task is over: `this.prefetchInProgress = false`.
deliver(P, c) ==
    LET down(i) == IF i > c THEN i - 1 ELSE i
        younger(call) == [call EXCEPT !.req = down(@),
                                      !.after = {down(d) : d \in @}]
        lastPrefetch == /\ P.calls[c].kind = "prefetch"
                        /\ \A d \in DOMAIN P.calls :
                              d # c => P.calls[d].kind # "prefetch"
    IN  [P EXCEPT !.S = shiftReqs(P.S, c),
                  !.calls = [d \in 1..(Len(P.calls) - 1) |->
                               younger(IF d < c THEN P.calls[d] ELSE P.calls[d + 1])],
                  !.prefetchInProgress = IF lastPrefetch THEN FALSE ELSE @]


\* prefetchCommonPaths() up to its `await Promise.all(...)`: nothing while a
\* prefetch is in progress or no root path is configured; else one
\* getAttrNames query per prefetch path, all started at once.
RECURSIVE prefetchEach(_, _)
prefetchEach(P, subPaths) ==
    IF subPaths = <<>> THEN P
    ELSE LET c == Len(P.calls) + 1
             fullPath == rootPath \o <<Head(subPaths)>>
             new == [NewCall EXCEPT !.kind = "prefetch", !.path = fullPath]
             P0 == [P EXCEPT !.calls = [d \in 1..c |-> IF d < c THEN P.calls[d] ELSE new]]
         IN  prefetchEach(issue(P0, c, "attrNames", fullPath), Tail(subPaths))

prefetchCommonPaths(P) ==
    IF P.prefetchInProgress \/ rootPath = <<>> THEN P
    ELSE prefetchEach([P EXCEPT !.prefetchInProgress = TRUE], PrefetchPaths)

\* FlakeTreeProvider.refresh(). History kept for the claims: `preRefresh`
\* marks the calls that were in progress when refresh() ran.
refresh(P) ==
    prefetchCommonPaths([P EXCEPT !.rootNode = FALSE,
                                  !.prefetchCache = << >>,
                                  !.knownPaths = {},
                                  !.calls = [c \in DOMAIN P.calls |->
                                               [P.calls[c] EXCEPT !.preRefresh = TRUE]]])
\* ------------------------------------- expansion tracker and smart refresh
\* The expansion-aware provider that the extension calls (onNodeExpanded,
\* onNodeCollapsed, smartRefresh): its paths are the dotted display form,
\* kept here character by character, so that a prefix of the text and a
\* prefix of the segments are different things ("p" and "p2").
TrackedPaths ==
    { <<"p">>, <<"p", "2">>, <<"p", ".", "a">>, <<"p", ".", "a", ".", "b">> }

\* What a cache entry holds: the kind of the value at the path.
MetadataKinds == {"set", "list"}

\* String.prototype.startsWith
startsWith(s, prefix) ==
    Len(prefix) <= Len(s) /\ SubSeq(s, 1, Len(prefix)) = prefix

\* `path.split('.').length`
depth(path) == Cardinality({i \in DOMAIN path : path[i] = "."}) + 1

\* Set.prototype.add and delete: a Set keeps its elements in insertion order.
setAdd(set, x) ==
    IF \E i \in DOMAIN set : set[i] = x THEN set ELSE set \o <<x>>

setDelete(set, x) == SelectSeq(set, LAMBDA y : y # x)

\* Map.prototype.delete for every key in `gone`.
deleteKeys(cache, gone) ==
    [q \in DOMAIN cache \ gone |-> cache[q]]

\* The tracker's fields as one value; `refetched` is history kept for the
\* claims: the paths whose fetch the smart refresh that has just run
\* re-issued, in the order it re-issued them.
TrackerState ==
    [expandedPaths |-> expandedPaths, metadataCache |-> metadataCache,
     refetched |-> <<>>]

SetTracker(T) ==
    /\ expandedPaths' = T.expandedPaths
    /\ metadataCache' = T.metadataCache
    /\ refetched' = T.refetched

\* onNodeExpanded(path): the path joins the expansion set.
onNodeExpanded(T, path) ==
    [T EXCEPT !.expandedPaths = setAdd(T.expandedPaths, path)]

\* onNodeCollapsed with the descendants matched by text prefix alone: a
\* slip the claims must notice.
onNodeCollapsedByPrefix(T, path) ==
    [T EXCEPT !.expandedPaths = setDelete(T.expandedPaths, path),
              !.metadataCache =
                  deleteKeys(T.metadataCache,
                             {q \in DOMAIN T.metadataCache : startsWith(q, path)})]

\* onNodeCollapsed(path): the path leaves the expansion set, and the cache
\* entries of the path and of every cached descendant are evicted
\* (`cachedPath === path || cachedPath.startsWith(path + '.')`).
onNodeCollapsed(T, path) ==
    [T EXCEPT !.expandedPaths = setDelete(T.expandedPaths, path),
              !.metadataCache =
                  deleteKeys(T.metadataCache,
                             {q \in DOMAIN T.metadataCache :
                                q = path \/ startsWith(q, path \o <<".">>)})]

\* One step of a stable sort, deepest first: x goes behind every path that
\* is at least as deep.
RECURSIVE insertByDepth(_, _)
insertByDepth(sorted, x) ==
    IF sorted = <<>> THEN <<x>>
    ELSE IF depth(Head(sorted)) >= depth(x)
         THEN <<Head(sorted)>> \o insertByDepth(Tail(sorted), x)
         ELSE <<x>> \o sorted

\* The sort with the depths compared the wrong way round (shallowest
\* first): a slip the claims must notice.
RECURSIVE sortShallowestFirst(_)
sortShallowestFirst(paths) ==
    IF paths = <<>> THEN <<>>
    ELSE LET rest == sortShallowestFirst(SubSeq(paths, 1, Len(paths) - 1))
             x == paths[Len(paths)]
             before == SelectSeq(rest, LAMBDA y : depth(y) <= depth(x))
             behind == SelectSeq(rest, LAMBDA y : depth(y) > depth(x))
         IN  before \o <<x>> \o behind

\* `[...expandedPaths].sort((a, b) => depth(b) - depth(a))`
RECURSIVE sortByDepth(_)
sortByDepth(paths) ==
    IF paths = <<>> THEN <<>>
    ELSE insertByDepth(sortByDepth(SubSeq(paths, 1, Len(paths) - 1)),
                       paths[Len(paths)])

\* smartRefresh with the cached paths outside the expansion set left in
\* the cache: a slip the claims must notice.
smartRefreshKeepsCollapsed(T) ==
    LET sorted == sortByDepth(T.expandedPaths)
        expanded == {sorted[i] : i \in DOMAIN sorted}
    IN  [T EXCEPT !.metadataCache =
                      deleteKeys(T.metadataCache, expanded),
                  !.refetched = sorted]

\* smartRefresh(): the expansion set is sorted deepest first, every cached
\* path outside it is evicted, and then the entry of each expanded path is
\* invalidated and its fetch re-issued, in the sorted order.
smartRefresh(T) ==
    LET sorted == sortByDepth(T.expandedPaths)
        expanded == {sorted[i] : i \in DOMAIN sorted}
        evicted == deleteKeys(T.metadataCache, DOMAIN T.metadataCache \ expanded)
    IN  [T EXCEPT !.metadataCache = deleteKeys(evicted, expanded),
                  !.refetched = sorted]


\* ------------------------------------------------------- the file watcher
\* nixFlakeExplorer.debounceMs, default 500.
DebounceMs == 500
\* The watcher's clock is looked at twice per debounce window.
WatchStepMs == DebounceMs \div 2

\* `let debounceTimer: NodeJS.Timeout | undefined`.
NoTimer == [armed |-> FALSE, at |-> 0]
FileEvents == {"change", "create", "delete"}

\* A trigger that leaves a pending timer alone.
triggerRefreshNoReset(t) ==
    IF debounceTimer.armed THEN debounceTimer
    ELSE [armed |-> TRUE, at |-> t + DebounceMs]

\* triggerRefresh / triggerSmartRefresh: clearTimeout of the pending timer,
\* then setTimeout(..., debounceMs).
triggerRefresh(t) == [armed |-> TRUE, at |-> t + DebounceMs]

\* The timer is due: its callback runs before the clock goes on.
TimerDue == debounceTimer.armed /\ debounceTimer.at <= now

\* ------------------------------------------------------ attribute paths
\* Strings are sequences of symbols here, a symbol being a character or an
\* identifier: attribute paths are split and matched symbol by symbol.
Digits == <<"0", "1", "2", "3", "4", "5", "6", "7", "8", "9">>
IsDigit(ch) == \E i \in DOMAIN Digits : Digits[i] = ch
DigitValue(ch) == (CHOOSE i \in DOMAIN Digits : Digits[i] = ch) - 1

\* String.prototype.split('.'): the parts between the dots, empty ones
\* included.
RECURSIVE split(_)
split(str) ==
    IF \A i \in DOMAIN str : str[i] # "." THEN <<str>>
    ELSE LET dot == CHOOSE i \in DOMAIN str :
                        str[i] = "." /\ \A j \in 1..(i - 1) : str[j] # "."
         IN  <<SubSeq(str, 1, dot - 1)>> \o split(SubSeq(str, dot + 1, Len(str)))

\* Array.prototype.join('.')
RECURSIVE join(_)
join(parts) ==
    IF parts = <<>> THEN <<>>
    ELSE IF Len(parts) = 1 THEN parts[1]
    ELSE parts[1] \o <<".">> \o join(Tail(parts))

\* part.match(/^\[(\d+)\]$/)
matchIndex(part) ==
    /\ Len(part) >= 3
    /\ part[1] = "[" /\ part[Len(part)] = "]"
    /\ \A i \in 2..(Len(part) - 1) : IsDigit(part[i])

\* parseInt(match[1], 10) of the digits between the brackets.
RECURSIVE parseInt(_)
parseInt(digits) ==
    IF digits = <<>> THEN 0
    ELSE 10 * parseInt(SubSeq(digits, 1, Len(digits) - 1))
         + DigitValue(digits[Len(digits)])

\* The loop of parseAttrPath: an index part goes to listAccesses, any other
\* part to baseParts, whether indices have been collected before it or not.
RECURSIVE parseParts(_, _, _)
parseParts(parts, baseParts, listAccesses) ==
    IF parts = <<>> THEN [basePath |-> join(baseParts), listAccesses |-> listAccesses]
    ELSE IF matchIndex(Head(parts))
    THEN parseParts(Tail(parts), baseParts,
             listAccesses \o <<parseInt(SubSeq(Head(parts), 2, Len(Head(parts)) - 1))>>)
    ELSE parseParts(Tail(parts), baseParts \o <<Head(parts)>>, listAccesses)

\* NixRunner.parseAttrPath
parseAttrPath(attrPath) == parseParts(split(attrPath), <<>>, <<>>)

\* A split that leaves the brackets out of the parts.
RECURSIVE splitWithoutBrackets(_, _, _, _)
splitWithoutBrackets(path, parts, current, inBracket) ==
    IF path = <<>> THEN (IF current # <<>> THEN parts \o <<current>> ELSE parts)
    ELSE IF Head(path) = "[" THEN splitWithoutBrackets(Tail(path), parts, current, TRUE)
    ELSE IF Head(path) = "]" THEN splitWithoutBrackets(Tail(path), parts, current, FALSE)
    ELSE IF Head(path) = "." /\ ~inBracket
    THEN (IF current # <<>> THEN splitWithoutBrackets(Tail(path), parts \o <<current>>, <<>>, inBracket)
          ELSE splitWithoutBrackets(Tail(path), parts, current, inBracket))
    ELSE splitWithoutBrackets(Tail(path), parts, current \o <<Head(path)>>, inBracket)

\* The loop of SearchProvider.splitPath over the characters of the path.
RECURSIVE splitChars(_, _, _, _)
splitChars(path, parts, current, inBracket) ==
    IF path = <<>> THEN (IF current # <<>> THEN parts \o <<current>> ELSE parts)
    ELSE IF Head(path) = "["
    THEN splitChars(Tail(path), parts, current \o <<"[">>, TRUE)
    ELSE IF Head(path) = "]"
    THEN splitChars(Tail(path), parts, current \o <<"]">>, FALSE)
    ELSE IF Head(path) = "." /\ ~inBracket
    THEN (IF current # <<>> THEN splitChars(Tail(path), parts \o <<current>>, <<>>, inBracket)
          ELSE splitChars(Tail(path), parts, current, inBracket))
    ELSE splitChars(Tail(path), parts, current \o <<Head(path)>>, inBracket)

\* SearchProvider.splitPath
splitPath(path) == splitChars(path, <<>>, <<>>, FALSE)

\* `${idx}`: the decimal digits of a number.
RECURSIVE toString(_)
toString(n) ==
    IF n < 10 THEN <<Digits[n + 1]>>
    ELSE toString(n \div 10) \o <<Digits[(n % 10) + 1]>>

\* An accessor that wraps the indices in the reverse order.
RECURSIVE elemAtReversed(_, _)
elemAtReversed(accessor, listAccesses) ==
    IF listAccesses = <<>> THEN accessor
    ELSE elemAtReversed(
             <<"(", "builtins.elemAt", " ">> \o accessor \o <<" ">>
                 \o toString(listAccesses[Len(listAccesses)]) \o <<")">>,
             SubSeq(listAccesses, 1, Len(listAccesses) - 1))

\* The loop of buildEvalArgs over listAccesses:
\* accessor = `(builtins.elemAt ${accessor} ${idx})`.
RECURSIVE elemAt(_, _)
elemAt(accessor, listAccesses) ==
    IF listAccesses = <<>> THEN accessor
    ELSE elemAt(<<"(", "builtins.elemAt", " ">> \o accessor \o <<" ">>
                    \o toString(Head(listAccesses)) \o <<")">>,
                Tail(listAccesses))

\* applyExpr.replace(/\bx\b/g, 'v'): the identifiers of an expression are
\* single symbols.
replaceX(applyExpr) ==
    [i \in DOMAIN applyExpr |-> IF applyExpr[i] = "x" THEN "v" ELSE applyExpr[i]]

\* The apply expressions of the queries; <<>> for none.
TypeOfExpr == <<"x", ":", " ", "builtins.typeOf", " ", "x">>
ApplyExprs == {<<>>, TypeOfExpr}

\* NixRunner.buildEvalArgs: ['eval', '--json', flakeRef, '--apply', fullApply]
\* as [flakeRef, apply, fullApply].
buildEvalArgs(attrPath, applyExpr) ==
    LET parsed == parseAttrPath(attrPath)
        flakeRef == IF parsed.basePath # <<>>
                    THEN <<".", "#">> \o parsed.basePath ELSE <<".">>
        accessor == elemAt(<<"x">>, parsed.listAccesses)
    IN  IF Len(parsed.listAccesses) > 0
        THEN [flakeRef |-> flakeRef, apply |-> TRUE,
              fullApply |-> IF applyExpr # <<>>
                            THEN <<"x", ":", " ", "let", " ", "v", " ", "=", " ">>
                                     \o accessor \o <<";", " ", "in", " ">>
                                     \o replaceX(applyExpr)
                            ELSE <<"x", ":", " ">> \o accessor]
        ELSE IF applyExpr # <<>>
        THEN [flakeRef |-> flakeRef, apply |-> TRUE, fullApply |-> applyExpr]
        ELSE [flakeRef |-> flakeRef, apply |-> FALSE, fullApply |-> <<>>]

\* The parts that paths are made of: names, well-formed indices, parts that
\* look like an index without being one, the empty part and a part whose
\* bracket is not closed.
PathParts ==
    { <<"a">>, <<"b">>, <<"[", "0", "]">>, <<"[", "3", "]">>,
      <<"[", "1", "2", "]">>, <<"[", "]">>, <<"[", "a", "]">>, <<"2">>,
      <<"3">>, <<>>, <<"[", "3">> }
PathInputs ==
    UNION { [1..n -> PathParts] : n \in 1..MaxParts }
NotSplit == [done |-> FALSE, parts |-> <<>>]
NoEvalArgs == [flakeRef |-> <<>>, apply |-> FALSE, fullApply |-> <<>>]

\* The children applyFilter is given: sequences of nodes below the root
\* path, one of them outside it, and the filters the user types.
FilterNode(label, attrPath) == [label |-> label, attrPath |-> attrPath]
ChildPool ==
    LET R == IF rootPath = <<>> THEN <<>> ELSE rootPath \o <<".">>
    IN  { FilterNode(<<"a">>, R \o <<"a">>),
          FilterNode(<<"b">>, R \o <<"a", ".", "b">>),
          FilterNode(<<"A", "b">>, R \o <<"A", "b">>),
          FilterNode(<<"c">>, R \o <<"c">>),
          FilterNode(<<"c">>, <<"d", ".", "c">>) }
ChildInputs == UNION { [1..n -> ChildPool] : n \in 0..MaxChildren }
FilterInputs ==
    { <<>>, <<"a">>, <<"A">>, <<"a", ".", "b">>, <<"a", "b">>, <<"b">>, <<"c", "X">> }
NotFiltered == [done |-> FALSE, children |-> <<>>]

\* ------------------------------------------------------ the search view
\* Suggestions are kept by where they come from: the local path tree or a
\* completion request, and the query they were computed for.
Suggestion(from, query) == [from |-> from, query |-> query]

\* What the user types into the search box.
Queries == {<<>>, <<"a">>, <<"a", "b">>, <<"a", " ">>}

\* String.prototype.trim
RECURSIVE trim(_)
trim(str) ==
    IF str = <<>> THEN str
    ELSE IF Head(str) = " " THEN trim(Tail(str))
    ELSE IF str[Len(str)] = " " THEN trim(SubSeq(str, 1, Len(str) - 1))
    ELSE str

\* `nixdAvailable: boolean | null = null`, no timer, no pending request.
NoSearchTimer == [armed |-> FALSE, query |-> <<>>, local |-> {}]
NewSearch ==
    [nixdAvailable |-> "null", nixdDebounceTimer |-> NoSearchTimer,
     pendingNixdRequest |-> 0, requests |-> <<>>, query |-> <<>>]

\* getLocalAutocompleteSuggestions(query)
localSuggestions(query) == {Suggestion("local", query)}

\* mergeSuggestions(nixdSuggestions, localSuggestions): the completion
\* results first, then the local ones not among them.
mergeSuggestions(nixdSuggestions, local) == nixdSuggestions \cup local

\* pendingNixdRequest.abort(); pendingNixdRequest = null
abortPending(s) ==
    IF s.pendingNixdRequest # 0
    THEN [s EXCEPT !.requests[s.pendingNixdRequest].aborted = TRUE,
                   !.pendingNixdRequest = 0]
    ELSE s

\* handleSearchChange(query) after setFilterPath: the pending request is
\* aborted, the timer cleared, and a timer is armed for the completion
\* request if nixd is available and the query is not empty.
handleSearchChange(s, query) ==
    LET s1 == [abortPending(s) EXCEPT !.nixdDebounceTimer = NoSearchTimer,
                                      !.query = query]
    IN  IF s.nixdAvailable = "true" /\ query # <<>>
        THEN [s1 EXCEPT !.nixdDebounceTimer =
                  [armed |-> TRUE, query |-> query, local |-> localSuggestions(query)]]
        ELSE s1

\* fetchNixdSuggestions(query, localSuggestions) up to its await: a new
\* AbortController becomes the pending request.
fetchNixdSuggestions(s) ==
    LET r == Len(s.requests) + 1
        request == [query |-> s.nixdDebounceTimer.query,
                    local |-> s.nixdDebounceTimer.local,
                    aborted |-> FALSE, done |-> FALSE, answer |-> "none"]
    IN  [s EXCEPT !.requests = s.requests \o <<request>>,
                  !.pendingNixdRequest = r,
                  !.nixdDebounceTimer.armed = FALSE]

\* A completion that shows its results whether it was aborted or not.
shownAfterIgnoringAbort(s, r, current, outcome) ==
    IF outcome = "results"
    THEN mergeSuggestions({Suggestion("nixd", s.requests[r].query)}, s.requests[r].local)
    ELSE current

\* What the search view shows once request r has its answer: nothing new if
\* the request was aborted, came back empty or threw.
shownAfter(s, r, current, outcome) ==
    IF ~s.requests[r].aborted /\ outcome = "results"
    THEN mergeSuggestions({Suggestion("nixd", s.requests[r].query)}, s.requests[r].local)
    ELSE current

\* The `finally` of fetchNixdSuggestions. History kept for the claims: the
\* answer the request got.
afterCompletion(s, r, outcome) ==
    [s EXCEPT !.requests[r].done = TRUE,
              !.requests[r].answer = outcome,
              !.pendingNixdRequest = IF @ = r THEN 0 ELSE @]

\* ------------------------------------------------------ the status view
\* `private maxHistory = 50`, and the slice(0, 10) of the posted messages.
maxHistory == 50
PostedUpdates == 10

NoMessage == [type |-> "none", updates |-> <<>>]

\* Array.prototype.slice(0, n)
slice(arr, n) == SubSeq(arr, 1, IF Len(arr) < n THEN Len(arr) ELSE n)

\* A history that grows at the end.
pushUpdate(history, update) == slice(history \o <<update>>, maxHistory)

\* statusHistory.unshift(update) and the trim to maxHistory.
unshiftUpdate(history, update) == slice(<<update>> \o history, maxHistory)

\* The message of restoreStatusHistory and updateStatus.
statusMessage(history) == [type |-> "status", updates |-> slice(history, PostedUpdates)]
\* ---------------------------------------------------------------- actions
\* Call c waits for a promise that has settled.
Pending(c) ==
    calls[c].req \in DOMAIN reqs /\ reqs[calls[c].req].settled

\* A promise has settled and its continuation has not run yet: it runs
\* before any other callback.
MicrotaskPending == \E c \in DOMAIN calls : Pending(c) \/ calls[c].pc = "done"

\* The processes whose timeout sent them SIGTERM and that have not closed.
Lingering == {p \in DOMAIN procs : procs[p].by = "timeout" /\ procs[p].st = "running"}

Fresh ==
    /\ reqs = << >>
    /\ procs = << >>
    /\ activeProcesses = << >>
    /\ debounceTimers = << >>
    /\ flake \in Flakes
    /\ rootPath \in RootPaths
    /\ rootNode = FALSE
    /\ nodes = [p \in Elems |-> NewNodeState]
    /\ lastGoodChildren = << >>
    /\ prefetchCache = << >>
    /\ prefetchInProgress = FALSE
    /\ knownPaths = {}
    /\ allPaths = {}
    /\ pathTree = << >>
    /\ calls = <<>>
    /\ fetched = << >>
    /\ now = 0
    /\ expandedPaths = <<>>
    /\ metadataCache = << >>
    /\ refetched = <<>>
    /\ lastEvent = [op |-> "none", path |-> <<>>, cached |-> {}]
    /\ debounceTimer = NoTimer
    /\ watched = [last |-> -1, refreshes |-> 0, burst |-> 0]
    /\ search = NewSearch
    /\ shown = {}
    /\ view = FALSE
    /\ statusHistory = <<>>
    /\ posted = NoMessage
    /\ updates = [issued |-> 0, sinceClear |-> <<>>]

\* The state after activate() in a workspace folder.
\* No query is being built.
NoQuery ==
    /\ attrPathParts = <<>>
    /\ queryApply = <<>>
    /\ evalArgs = NoEvalArgs
    /\ filterPath = <<>>
    /\ unfiltered = <<>>
    /\ filtered = NotFiltered
    /\ segments = NotSplit

Init ==
    /\ Fresh
    /\ flakePath = "/ws"
    /\ activation = [state |-> "active", errors |-> 0]
    /\ NoQuery

\* A client calls run(args, options, key, debounce).
Run(args, key, debounce) ==
    /\ Cardinality(DOMAIN reqs) < MaxReq
    /\ SetRunner(run(RunnerState, FreshReq(RunnerState), args, key, debounce))
    /\ UNCHANGED <<providerVars, trackerVars, watcherVars, utilVars, viewVars>>

\* A client calls cancel(key).
Cancel(key) ==
    /\ key \in {reqs[i].key : i \in DOMAIN reqs}
    /\ SetRunner(cancel(RunnerState, key))
    /\ UNCHANGED <<providerVars, trackerVars, watcherVars, utilVars, viewVars>>

\* A client calls cancelAll().
CancelAll ==
    /\ DOMAIN reqs # {}
    /\ SetRunner(cancelAll(RunnerState))
    /\ UNCHANGED <<providerVars, trackerVars, watcherVars, utilVars, viewVars>>

\* The debounce timer of call r fires.
DebounceFire(r) ==
    /\ reqs[r].timer = "pending"
    /\ SetRunner(debounceFired(RunnerState, r))
    /\ UNCHANGED <<providerVars, trackerVars, watcherVars, utilVars, viewVars>>

\* Process p closes with an exit code, having written its answer and stderr.
ProcClose(p, code, stderr) ==
    /\ ~MicrotaskPending
    /\ procs[p].st = "running"
    /\ SetRunner(onClose(RunnerState, p, code, Stdout(flake, procs[p].key.kind), stderr))
    /\ UNCHANGED <<providerVars, trackerVars, watcherVars, utilVars, viewVars>>

\* Process p could not be spawned: 'error' is emitted.
ProcError(p) ==
    /\ ~MicrotaskPending
    /\ procs[p].st = "running"
    /\ ~procs[p].killed
    /\ SetRunner(onError(RunnerState, p, SpawnErrMsg))
    /\ UNCHANGED <<providerVars, trackerVars, watcherVars, utilVars, viewVars>>

\* The timeout of process p expires.
ProcTimeout(p) ==
    /\ ~MicrotaskPending
    /\ procs[p].timeout = "armed"
    /\ procs[p].key.kind \in SlowKinds
    /\ procs[p].killed \/ Cardinality(Lingering) < MaxLingering
    /\ SetRunner(onTimeout(RunnerState, p))
    /\ UNCHANGED <<providerVars, trackerVars, watcherVars, utilVars, viewVars>>

\* The tree view calls getChildren(element) while fewer than `limit` calls
\* are in progress.
GetChildren(elem, limit) ==
    /\ ~MicrotaskPending
    /\ Len(calls) < limit
    /\ SetProvider(getChildren(ProviderState, elem))
    /\ UNCHANGED <<flake, flakePath, rootPath, now, trackerVars, watcherVars, utilVars, viewVars>>

\* The promise call c awaits has settled: getChildren goes on to its next
\* await or to its return.
Continue(c) ==
    /\ Pending(c)
    /\ SetProvider(continue(ProviderState, c))
    /\ UNCHANGED <<flake, flakePath, rootPath, now, trackerVars, watcherVars, utilVars, viewVars>>

\* The tree view's continuation of `await getChildren(...)` runs.
Deliver(c) ==
    /\ calls[c].pc = "done"
    /\ SetProvider(deliver(ProviderState, c))
    /\ UNCHANGED <<flake, flakePath, rootPath, now, trackerVars, watcherVars, utilVars, viewVars>>

\* The refresh command, a change of the flake path or of the configuration:
\* refresh(). Its prefetch tasks count as calls in progress.
Refresh(limit) ==
    /\ ~MicrotaskPending
    /\ Len(calls) + Len(PrefetchPaths) <= limit
    /\ SetProvider(refresh(ProviderState))
    /\ UNCHANGED <<flake, flakePath, rootPath, now, trackerVars, watcherVars, utilVars, viewVars>>

\* Time passes.
Tick ==
    /\ ~MicrotaskPending
    /\ now < TickMs * MaxTicks
    /\ now' = now + TickMs
    /\ UNCHANGED <<runnerVars, flake, flakePath, rootPath, rootNode, nodes,
                   lastGoodChildren, prefetchCache, prefetchInProgress,
                   knownPaths, allPaths, pathTree, calls, fetched, trackerVars, watcherVars, utilVars, viewVars>>

RunnerNext ==
    \/ \E c \in RunnerCalls, debounce \in BOOLEAN : Run(c[1], c[2], debounce)
    \/ CancelAll
    \/ \E key \in RunnerKeys : Cancel(key)
    \/ \E r \in DOMAIN reqs : DebounceFire(r)
    \/ \E p \in DOMAIN procs, code \in {0, 1}, stderr \in RunnerStderrs :
          ProcClose(p, code, stderr)
    \/ \E p \in DOMAIN procs : ProcError(p)
    \/ \E p \in DOMAIN procs : ProcTimeout(p)

\* The tree view reports that the node at `path` was expanded.
OnNodeExpanded(path) ==
    /\ SetTracker(onNodeExpanded(TrackerState, path))
    /\ lastEvent' = [op |-> "expand", path |-> path, cached |-> DOMAIN metadataCache]
    /\ UNCHANGED <<runnerVars, providerVars, watcherVars, utilVars, viewVars>>

\* The tree view reports that the node at `path` was collapsed.
OnNodeCollapsed(path) ==
    /\ SetTracker(onNodeCollapsed(TrackerState, path))
    /\ lastEvent' = [op |-> "collapse", path |-> path, cached |-> DOMAIN metadataCache]
    /\ UNCHANGED <<runnerVars, providerVars, watcherVars, utilVars, viewVars>>

\* The file watcher's debounce timer fires: smartRefresh().
SmartRefresh ==
    /\ SetTracker(smartRefresh(TrackerState))
    /\ lastEvent' = [op |-> "smartRefresh", path |-> <<>>, cached |-> DOMAIN metadataCache]
    /\ UNCHANGED <<runnerVars, providerVars, watcherVars, utilVars, viewVars>>

\* The resolver has fetched the node at `path` and caches its metadata.
CacheMetadata(path, kind) ==
    /\ SetTracker([TrackerState EXCEPT
                     !.metadataCache = MapSet(metadataCache, path, kind)])
    /\ lastEvent' = [op |-> "fetch", path |-> path, cached |-> DOMAIN metadataCache]
    /\ UNCHANGED <<runnerVars, providerVars, watcherVars, utilVars, viewVars>>

\* The runner's client alone: nothing reads the flake or the root path.
RunnerInit ==
    Init /\ rootPath = <<>> /\ flake = Flake("string", FALSE, <<>>, <<>>, FALSE)

RunnerSpec == RunnerInit /\ [][RunnerNext]_vars

\* The runner where what is due happens: a pending debounce timer fires
\* (setTimeout), and a spawned process closes.
RunnerFairSpec ==
    /\ RunnerInit
    /\ [][RunnerNext]_vars
    /\ WF_vars(\E r \in DOMAIN reqs : DebounceFire(r))
    /\ WF_vars(\E p \in DOMAIN procs, code \in {0, 1}, stderr \in RunnerStderrs :
                   ProcClose(p, code, stderr))

\* What the evaluator's processes do.
ProcessNext ==
    \/ \E p \in DOMAIN procs, code \in {0, 1}, stderr \in ProviderStderrs :
          ProcClose(p, code, stderr)
    \/ \E p \in DOMAIN procs : ProcError(p)
    \/ \E p \in DOMAIN procs : ProcTimeout(p)

\* The tree view expands nodes: getChildren(element) only, and the
\* configured root path is ''.
ProviderInit == Init /\ rootPath = <<>>

ProviderNext ==
    \/ \E path \in Elems : GetChildren(Elem(path), MaxCalls)
    \/ \E c \in DOMAIN calls : Continue(c)
    \/ \E c \in DOMAIN calls : Deliver(c)
    \/ ProcessNext
    \/ Tick

ProviderSpec == ProviderInit /\ [][ProviderNext]_vars

\* The same, where the tree view asks again before it has its answer.
OverlapNext ==
    \/ \E path \in Elems : GetChildren(Elem(path), MaxCalls + 1)
    \/ \E c \in DOMAIN calls : Continue(c)
    \/ \E c \in DOMAIN calls : Deliver(c)
    \/ ProcessNext
    \/ Tick

OverlapSpec == ProviderInit /\ [][OverlapNext]_vars

\* The tree view loads the root level: getChildren(undefined) only, with
\* either root path.
RootNext ==
    \/ GetChildren(RootElem, MaxCalls + 1)
    \/ \E c \in DOMAIN calls : Continue(c)
    \/ \E c \in DOMAIN calls : Deliver(c)
    \/ ProcessNext

RootSpec == Init /\ [][RootNext]_vars


\* Time passes: up to the cache's maximum age, then millisecond by
\* millisecond.
Age ==
    /\ ~MicrotaskPending
    /\ now < MaxAgeMs + MaxOverAge
    /\ now' = IF now < MaxAgeMs THEN MaxAgeMs ELSE now + 1
    /\ UNCHANGED <<runnerVars, flake, flakePath, rootPath, rootNode, nodes,
                   lastGoodChildren, prefetchCache, prefetchInProgress,
                   knownPaths, allPaths, pathTree, calls, fetched, trackerVars, watcherVars, utilVars, viewVars>>

\* activate(): without a workspace folder the error is shown and nothing
\* is constructed or registered; else the runner, the provider for the
\* folder, the tree view, the commands and the file watcher are set up.
activate(A, root) ==
    IF root = ""
    THEN [A EXCEPT !.state = "failed", !.errors = @ + 1]
    ELSE [A EXCEPT !.state = "active"]

Activate(root) ==
    /\ activation.state = "inactive"
    /\ activation' = activate(activation, root)
    /\ flakePath' = IF root = "" THEN flakePath ELSE root
    /\ UNCHANGED <<runnerVars, flake, rootPath, rootNode, nodes,
                   lastGoodChildren, prefetchCache, prefetchInProgress,
                   knownPaths, allPaths, pathTree, calls, fetched, now, trackerVars,
                   debounceTimer, watched, utilVars, viewVars>>

\* FlakeTreeProvider.setFlakePath(path)
SetFlakePath(path, limit) ==
    /\ ~MicrotaskPending
    /\ Len(calls) + Len(PrefetchPaths) <= limit
    /\ flakePath' = path
    /\ SetProvider(refresh(ProviderState))
    /\ UNCHANGED <<flake, rootPath, now, trackerVars, watcherVars, utilVars, viewVars>>

\* fileWatcher.onDidChange / onDidCreate / onDidDelete: the event re-arms
\* the debounce timer, whatever the file and the kind of event. The event
\* loop runs the timers that are due before it takes the next event.
FileEvent(kind) ==
    /\ ~TimerDue
    /\ debounceTimer.armed => watched.burst < MaxBurst
    /\ debounceTimer' = triggerRefresh(now)
    /\ UNCHANGED activation
    /\ watched' = [last |-> now, refreshes |-> 0,
                   burst |-> IF debounceTimer.armed THEN watched.burst + 1 ELSE 1]
    /\ UNCHANGED <<runnerVars, providerVars, trackerVars, utilVars, viewVars>>

\* The debounce timer's callback in extension.ts: treeProvider.refresh().
WatchRefresh ==
    /\ TimerDue
    /\ ~MicrotaskPending
    /\ debounceTimer' = [debounceTimer EXCEPT !.armed = FALSE]
    /\ UNCHANGED activation
    /\ watched' = [watched EXCEPT !.refreshes = @ + 1]
    /\ SetProvider(refresh(ProviderState))
    /\ UNCHANGED <<flake, flakePath, rootPath, now, trackerVars, utilVars, viewVars>>

\* The debounce timer's callback in the later extension.ts:
\* treeProvider.smartRefresh().
WatchSmartRefresh ==
    /\ TimerDue
    /\ ~MicrotaskPending
    /\ debounceTimer' = [debounceTimer EXCEPT !.armed = FALSE]
    /\ UNCHANGED activation
    /\ watched' = [watched EXCEPT !.refreshes = @ + 1]
    /\ SetTracker(smartRefresh(TrackerState))
    /\ lastEvent' = [op |-> "smartRefresh", path |-> <<>>, cached |-> DOMAIN metadataCache]
    /\ UNCHANGED <<runnerVars, providerVars, utilVars, viewVars>>

\* Time passes for the watcher; a timer that is due fires first.
WatchTick ==
    /\ ~TimerDue
    /\ now < WatchStepMs * MaxWatchSteps
    /\ now' = now + WatchStepMs
    /\ UNCHANGED <<runnerVars, flake, flakePath, rootPath, rootNode, nodes,
                   lastGoodChildren, prefetchCache, prefetchInProgress,
                   knownPaths, allPaths, pathTree, calls, fetched, trackerVars, watcherVars, utilVars, viewVars>>

\* The tree view expands and collapses nodes, nodes are fetched, and files
\* change.
TrackerNext ==
    \/ \E path \in TrackedPaths : OnNodeExpanded(path)
    \/ \E path \in TrackedPaths : OnNodeCollapsed(path)
    \/ \E path \in TrackedPaths, kind \in MetadataKinds : CacheMetadata(path, kind)
    \/ SmartRefresh

TrackerSpec == RunnerInit /\ [][TrackerNext]_vars

\* A node shows in the tree view when every node above it is expanded.
Visible(path) ==
    \A p \in TrackedPaths :
        startsWith(path, p \o <<".">>) => \E i \in DOMAIN expandedPaths : expandedPaths[i] = p

\* The same, with the events the tree view can produce: a node is expanded
\* when it shows, and collapsed when it shows and is expanded.
TreeViewNext ==
    \/ \E path \in TrackedPaths : Visible(path) /\ OnNodeExpanded(path)
    \/ \E path \in TrackedPaths :
          /\ Visible(path)
          /\ \E i \in DOMAIN expandedPaths : expandedPaths[i] = path
          /\ OnNodeCollapsed(path)
    \/ \E path \in TrackedPaths, kind \in MetadataKinds : CacheMetadata(path, kind)
    \/ SmartRefresh

TreeViewSpec == RunnerInit /\ [][TreeViewNext]_vars

\* The tree is refreshed while it is used: refresh(), also while a call of
\* getChildren for a node is in progress.
RefreshNext ==
    \/ Refresh(MaxCalls + 1)
    \/ \E path \in Elems : GetChildren(Elem(path), MaxCalls)
    \/ \E c \in DOMAIN calls : Continue(c)
    \/ \E c \in DOMAIN calls : Deliver(c)
    \/ ProcessNext

RefreshSpec == Init /\ [][RefreshNext]_vars

\* Files change while nodes are expanded and collapsed.
WatcherNext ==
    \/ \E kind \in FileEvents : FileEvent(kind)
    \/ WatchRefresh
    \/ WatchSmartRefresh
    \/ WatchTick
    \/ \E path \in {<<"p">>, <<"p", ".", "a">>} : OnNodeExpanded(path)
    \/ \E path \in {<<"p">>} : CacheMetadata(path, "set")

WatcherSpec == RunnerInit /\ [][WatcherNext]_vars

\* The tree view expands a node again and again while its cache ages.
CacheNext ==
    \/ \E path \in Elems : GetChildren(Elem(path), MaxCalls)
    \/ \E c \in DOMAIN calls : Continue(c)
    \/ \E c \in DOMAIN calls : Deliver(c)
    \/ ProcessNext
    \/ Age

CacheSpec == ProviderInit /\ [][CacheNext]_vars

\* The extension is activated, with or without a workspace folder; what it
\* has registered runs once it is active.
WorkspaceRoots == {"", "/ws"}

ActivationInit ==
    /\ Fresh
    /\ flakePath = ""
    /\ activation = [state |-> "inactive", errors |-> 0]
    /\ NoQuery

Active == activation.state = "active"

ActivationNext ==
    \/ \E root \in WorkspaceRoots : Activate(root)
    \/ Active /\ GetChildren(RootElem, MaxCalls)
    \/ Active /\ \E path \in Elems : GetChildren(Elem(path), MaxCalls)
    \/ Active /\ \E path \in WorkspaceRoots : SetFlakePath(path, MaxCalls)
    \/ Active /\ \E c \in DOMAIN calls : Continue(c)
    \/ Active /\ \E c \in DOMAIN calls : Deliver(c)
    \/ Active /\ ProcessNext

ActivationSpec == ActivationInit /\ [][ActivationNext]_vars

\* A query method builds its arguments: buildEvalArgs(attrPath, applyExpr).
BuildEvalArgs ==
    /\ evalArgs = NoEvalArgs
    /\ evalArgs' = buildEvalArgs(join(attrPathParts), queryApply)
    /\ UNCHANGED <<runnerVars, providerVars, trackerVars, watcherVars,
                   attrPathParts, queryApply, filterPath, unfiltered, filtered,
                   segments, viewVars>>

\* The arguments of the queries for every path of a few parts.
EvalArgsInit ==
    /\ Fresh
    /\ rootPath = <<>>
    /\ flake = Flake("string", FALSE, <<>>, <<>>, FALSE)
    /\ flakePath = "/ws"
    /\ activation = [state |-> "active", errors |-> 0]
    /\ attrPathParts \in PathInputs
    /\ queryApply \in ApplyExprs
    /\ evalArgs = NoEvalArgs
    /\ filterPath = <<>>
    /\ unfiltered = <<>>
    /\ filtered = NotFiltered
    /\ segments = NotSplit

EvalArgsNext == BuildEvalArgs

EvalArgsSpec == EvalArgsInit /\ [][EvalArgsNext]_vars

\* getChildren hands the children it has to applyFilter.
ApplyFilter ==
    /\ ~filtered.done
    /\ filtered' = [done |-> TRUE, children |-> applyFilter(unfiltered)]
    /\ UNCHANGED <<runnerVars, providerVars, trackerVars, watcherVars,
                   attrPathParts, queryApply, evalArgs, filterPath, unfiltered,
                   segments, viewVars>>

\* Every filter on every list of a few children, with and without a root
\* path.
FilterInit ==
    /\ Fresh
    /\ flake = Flake("string", FALSE, <<>>, <<>>, FALSE)
    /\ flakePath = "/ws"
    /\ activation = [state |-> "active", errors |-> 0]
    /\ attrPathParts = <<>>
    /\ queryApply = <<>>
    /\ evalArgs = NoEvalArgs
    /\ filterPath \in FilterInputs
    /\ unfiltered \in ChildInputs
    /\ filtered = NotFiltered
    /\ segments = NotSplit

FilterNext == ApplyFilter

FilterSpec == FilterInit /\ [][FilterNext]_vars

\* indexPath hands a path to splitPath.
SplitPath ==
    /\ ~segments.done
    /\ segments' = [done |-> TRUE, parts |-> splitPath(join(attrPathParts))]
    /\ UNCHANGED <<runnerVars, providerVars, trackerVars, watcherVars,
                   attrPathParts, queryApply, evalArgs, filterPath, unfiltered,
                   filtered, viewVars>>

\* The paths of a few parts that the search index and the evaluator are
\* given.
SplitInit ==
    /\ Fresh
    /\ rootPath = <<>>
    /\ flake = Flake("string", FALSE, <<>>, <<>>, FALSE)
    /\ flakePath = "/ws"
    /\ activation = [state |-> "active", errors |-> 0]
    /\ attrPathParts \in PathInputs
    /\ queryApply = <<>>
    /\ evalArgs = NoEvalArgs
    /\ filterPath = <<>>
    /\ unfiltered = <<>>
    /\ filtered = NotFiltered
    /\ segments = NotSplit

SplitNext == SplitPath

SplitSpec == SplitInit /\ [][SplitNext]_vars

\* deactivate() of extension.ts: clearTimeout of the watcher's debounce
\* timer, then nixRunner.cancelAll(). The subscriptions are disposed with the
\* extension: no further file event or tree view request arrives.
Deactivate ==
    /\ Active
    /\ ~MicrotaskPending
    /\ debounceTimer' = [debounceTimer EXCEPT !.armed = FALSE]
    /\ activation' = [activation EXCEPT !.state = "deactivated"]
    /\ SetRunner(cancelAll(RunnerState))
    /\ UNCHANGED <<providerVars, trackerVars, watched, utilVars, viewVars>>

\* The extension is used and then deactivated: files change, nodes are
\* expanded, and what is in progress at deactivation goes on.
DeactivateNext ==
    \/ Active /\ FileEvent("change")
    \/ WatchRefresh
    \/ WatchTick
    \/ Active /\ \E path \in Elems : GetChildren(Elem(path), MaxCalls)
    \/ \E c \in DOMAIN calls : Continue(c)
    \/ \E c \in DOMAIN calls : Deliver(c)
    \/ ProcessNext
    \/ Deactivate

DeactivateSpec == ProviderInit /\ [][DeactivateNext]_vars

\* The search box changes: handleSearchChange(query), with setFilterPath on
\* the tree provider and the local suggestions shown at once.
HandleSearchChange(query) ==
    /\ filterPath' = trim(query)
    /\ search' = handleSearchChange(search, query)
    /\ shown' = localSuggestions(query)
    /\ UNCHANGED <<runnerVars, providerVars, trackerVars, watcherVars,
                   attrPathParts, queryApply, evalArgs, unfiltered, filtered,
                   segments, view, statusHistory, posted, updates>>

\* checkNixdAvailability() has its answer.
NixdAvailability(available) ==
    /\ search.nixdAvailable = "null"
    /\ search' = [search EXCEPT !.nixdAvailable = available]
    /\ UNCHANGED <<runnerVars, providerVars, trackerVars, watcherVars, utilVars,
                   shown, view, statusHistory, posted, updates>>

\* The 150 ms timer of handleSearchChange fires: fetchNixdSuggestions starts.
NixdTimerFire ==
    /\ search.nixdDebounceTimer.armed
    /\ Len(search.requests) < MaxRequests
    /\ search' = fetchNixdSuggestions(search)
    /\ UNCHANGED <<runnerVars, providerVars, trackerVars, watcherVars, utilVars,
                   shown, view, statusHistory, posted, updates>>

\* getConfigCompletion of request r returns results or none, or throws.
NixdCompletion(r, outcome) ==
    /\ ~search.requests[r].done
    /\ shown' = shownAfter(search, r, shown, outcome)
    /\ search' = afterCompletion(search, r, outcome)
    /\ UNCHANGED <<runnerVars, providerVars, trackerVars, watcherVars, utilVars,
                   view, statusHistory, posted, updates>>

SearchNext ==
    \/ \E query \in Queries : HandleSearchChange(query)
    \/ \E available \in {"true", "false"} : NixdAvailability(available)
    \/ NixdTimerFire
    \/ \E r \in DOMAIN search.requests, outcome \in {"results", "empty", "throw"} :
          NixdCompletion(r, outcome)

SearchSpec == RunnerInit /\ [][SearchNext]_vars

\* resolveWebviewView: the view is created and the history restored.
ResolveWebviewView ==
    /\ ~view
    /\ view' = TRUE
    /\ posted' = IF Len(statusHistory) > 0 THEN statusMessage(statusHistory) ELSE posted
    /\ UNCHANGED <<runnerVars, providerVars, trackerVars, watcherVars, utilVars,
                   search, shown, statusHistory, updates>>

\* The webview becomes visible again: restoreStatusHistory().
RestoreStatusHistory ==
    /\ view
    /\ Len(statusHistory) > 0
    /\ posted' = statusMessage(statusHistory)
    /\ UNCHANGED <<runnerVars, providerVars, trackerVars, watcherVars, utilVars,
                   search, shown, view, statusHistory, updates>>

\* updateStatus(update); the updates are numbered as they are issued.
UpdateStatus ==
    /\ updates.issued < MaxUpdates
    /\ LET update == [type |-> "info", message |-> updates.issued + 1]
       IN  /\ statusHistory' = unshiftUpdate(statusHistory, update)
           /\ updates' = [issued |-> updates.issued + 1,
                          sinceClear |-> updates.sinceClear \o <<update>>]
    /\ posted' = IF view THEN statusMessage(statusHistory') ELSE posted
    /\ UNCHANGED <<runnerVars, providerVars, trackerVars, watcherVars, utilVars,
                   search, shown, view>>

\* StatusViewProvider.clear()
ClearStatus ==
    /\ statusHistory' = <<>>
    /\ updates' = [updates EXCEPT !.sinceClear = <<>>]
    /\ posted' = IF view THEN [type |-> "clear", updates |-> <<>>] ELSE posted
    /\ UNCHANGED <<runnerVars, providerVars, trackerVars, watcherVars, utilVars,
                   search, shown, view>>

StatusNext ==
    \/ ResolveWebviewView
    \/ RestoreStatusHistory
    \/ UpdateStatus
    \/ ClearStatus

StatusSpec == RunnerInit /\ [][StatusNext]_vars
\* ------------------------------------------------------------------ claims
\* The processes spawned on behalf of call r.
SpawnedFor(r) == {p \in DOMAIN procs : procs[p].req = r}

\* C1: when a debounced run() for a key finds the debounce timer of an
\* earlier debounced run() for that key still pending, no process is ever
\* spawned for the earlier call, and at most one is spawned for the later
\* call, with the later call's arguments; it is exactly one once the later
\* call's timer has fired.
C1_DebounceLastWins ==
    \A r2 \in DOMAIN reqs :
        (reqs[r2].debounce /\ reqs[r2].prev # 0) =>
            /\ SpawnedFor(reqs[r2].prev) = {}
            /\ Cardinality(SpawnedFor(r2)) <= 1
            /\ \A p \in SpawnedFor(r2) : procs[p].args = reqs[r2].args
            /\ reqs[r2].timer = "fired" => Cardinality(SpawnedFor(r2)) = 1

\* C1 witness: the later of two debounced calls with different arguments
\* has fired and its process runs with the later arguments.
C1_Witness ==
    \E r2 \in DOMAIN reqs :
        /\ reqs[r2].debounce /\ reqs[r2].prev # 0
        /\ reqs[reqs[r2].prev].args # reqs[r2].args
        /\ reqs[r2].timer = "fired"
        /\ \E p \in SpawnedFor(r2) : procs[p].args = reqs[r2].args

\* C2: a call that was superseded by a later run() with the same key while
\* its promise was still pending never delivers a result.
C2_SupersededNeverDelivers ==
    \A r \in DOMAIN reqs : reqs[r].superseded => ~reqs[r].settled

\* C10: when cancelAll() returns no debounce timer is pending and every
\* process still running has been sent SIGTERM (so nothing is spawned later
\* for a call made before it).
C10_CancelAllClearsEverything ==
    [][CancelAll =>
         /\ \A r \in DOMAIN reqs' : reqs'[r].timer # "pending"
         /\ \A p \in DOMAIN procs' : procs'[p].st = "running" => procs'[p].killed]_vars

\* The entry of a map for a path, or nothing.
Entry(m, path) == IF path \in DOMAIN m THEN <<m[path]>> ELSE <<>>

\* Call c waits for a query whose process cancel() sent SIGTERM.
Canceled(c) ==
    \E p \in DOMAIN procs : procs[p].req = calls[c].req /\ procs[p].by = "cancel"

\* Call c is about to read the failure of the query that decides what it
\* fetches: the type, the attribute names or the list elements.
FailedFetch(c) ==
    /\ Pending(c)
    /\ calls[c].pc \in {"type", "attrNames", "listElems"}
    /\ ~reqs[calls[c].req].success

\* The step of call c leaves the cache of its element and the last good
\* children of its path as they were.
WritesNothing(c) ==
    /\ nodes'[calls[c].path].cache = nodes[calls[c].path].cache
    /\ Entry(lastGoodChildren', calls[c].path) = Entry(lastGoodChildren, calls[c].path)

\* C3: a call of getChildren(element) one of whose queries was canceled
\* before its process completed changes neither element.cache nor
\* lastGoodChildren[element.attrPath], in the step that reads the canceled
\* query's result and in every later step of the call.
C3_CanceledQueryWritesNothing ==
    [][\A c \in DOMAIN calls :
          (Pending(c) /\ ~calls[c].isRoot /\ (calls[c].hadCancel \/ Canceled(c)))
              => WritesNothing(c)]_vars

\* C4: of two calls of getChildren on the same path, the second begun while
\* the first was in flight: once the second has returned and written the
\* cache, no step of the first (stale) call changes element.cache or
\* lastGoodChildren for the path.
C4_StaleCallNeverOverwrites ==
    [][\A c \in DOMAIN calls :
          (Pending(c) /\ ~calls[c].isRoot /\ calls[c].stale) => WritesNothing(c)]_vars

\* C5: when a fetch of a path's children fails after a fetch of the path
\* has succeeded, whatever its payload, the last good children recorded for
\* the path are the payload of that successful fetch.
C5_LastGoodIsLastSuccess ==
    [][\A c \in DOMAIN calls :
          (FailedFetch(c) /\ calls[c].path \in DOMAIN fetched)
              => Entry(lastGoodChildren', calls[c].path) = <<fetched[calls[c].path]>>]_vars

C7_RootFallsBackToLoaded ==
    [][\A c \in DOMAIN calls :
          ( /\ Pending(c) /\ calls[c].isRoot
            /\ calls[c].pc \in {"flakeShow", "type", "attrNames", "listElems"}
            /\ ~reqs[calls[c].req].success
            /\ rootPath \in DOMAIN fetched )
              => /\ calls'[c].pc = "done"
                 /\ calls'[c].ret = fetched[rootPath]]_vars

\* C8: no entry of lastGoodChildren holds a list that contains an
\* Error node.
C8_LastGoodHoldsNoErrorNode ==
    \A path \in DOMAIN lastGoodChildren :
        \A i \in DOMAIN lastGoodChildren[path] :
            lastGoodChildren[path][i].nodeType # "error"

\* C9: when the fetch for a node succeeds with zero children, the empty
\* list is in the node's cache afterwards, so that getCachedChildren()
\* answers with it while it is fresh.
C9_EmptyResultIsCached ==
    [][\A c \in DOMAIN calls :
          ( /\ Pending(c) /\ ~calls[c].isRoot
            /\ calls[c].pc \in {"attrNames", "listElems"}
            /\ reqs[calls[c].req].success
            /\ reqs[calls[c].req].data = [t |-> "json", v |-> <<>>] )
              => getCachedChildren(nodes'[calls[c].path], now) =
                     [hit |-> TRUE, children |-> <<>>]]_vars


\* The processes of key k that were spawned and have neither exited nor
\* been sent SIGTERM.
LiveProcs(k) ==
    {p \in DOMAIN procs : procs[p].key = k /\ procs[p].st = "running" /\ ~procs[p].killed}

\* C11: in every reachable state and for every key, at most one process of
\* the key runs without having been sent SIGTERM, and no such process
\* exists while a debounce timer is pending for the key.
C11_OnePendingQueryPerKey ==
    \A k \in {procs[p].key : p \in DOMAIN procs} :
        /\ Cardinality(LiveProcs(k)) <= 1
        /\ ~(LiveProcs(k) # {} /\ k \in DOMAIN debounceTimers)

\* The result of call r is the timed-out failure.
TimedOut(rs, r) ==
    r \in DOMAIN rs /\ rs[r].settled /\ ~rs[r].success /\ rs[r].error = TimedOutMsg

\* C12: when the timeout of a process that has not closed expires, the
\* process has been sent SIGTERM and its call is settled with the timed-out
\* failure; and a call settled with the timed-out failure keeps that result
\* whatever its process does later.
C12_TimeoutYieldsTimedOut ==
    [][/\ \A p \in DOMAIN procs :
             (procs[p].st = "running" /\ procs[p].timeout = "armed"
                /\ p \in DOMAIN procs' /\ procs'[p].timeout = "fired")
             => procs'[p].killed /\ TimedOut(reqs', procs[p].req)
       /\ \A r \in DOMAIN reqs : TimedOut(reqs, r) => TimedOut(reqs', r)]_vars

\* How many queries of the given kind call c has made.
Issued(c, kind) ==
    Cardinality({i \in DOMAIN calls[c].issued : calls[c].issued[i] = kind})

\* C13: a call that resolves the children of a list makes exactly one
\* batched listElems query and no per-element query, however many elements
\* the list has: the queries of the call are the type query and, once the
\* type is known, the one listElems query.
C13_OneBatchedListQuery ==
    \A c \in DOMAIN calls :
        /\ Issued(c, "listElems") <= 1
        /\ Issued(c, "listElem") = 0 /\ Issued(c, "listLen") = 0
        /\ (calls[c].pc = "done" /\ ~calls[c].isRoot /\ flake.type = "list"
              /\ calls[c].issued # <<>> /\ calls[c].failed # "type")
           => calls[c].issued = <<"type", "listElems">>

\* A list of two elements has been resolved into its two children.
C13_Witness ==
    \E c \in DOMAIN calls :
        /\ calls[c].pc = "done" /\ Len(calls[c].ret) = 2
        /\ calls[c].ret[1].nodeType = "derivation"
        /\ calls[c].ret[2].nodeType = "listElement"
        /\ calls[c].issued = <<"type", "listElems">>

\* C14: a call that resolves the children of an attribute set on a cache
\* miss makes a single query, which yields the kind and the child names.
C14_OneQueryForKindAndNames ==
    \A c \in DOMAIN calls :
        (~calls[c].isRoot /\ flake.type = "set") => Len(calls[c].issued) <= 1

\* The segments of a path in display form: the text between the dots.
RECURSIVE Segments(_)
Segments(path) ==
    IF \A i \in DOMAIN path : path[i] # "." THEN <<path>>
    ELSE LET i == CHOOSE j \in DOMAIN path :
                      path[j] = "." /\ \A k \in 1..(j - 1) : path[k] # "."
         IN  <<SubSeq(path, 1, i - 1)>> \o Segments(SubSeq(path, i + 1, Len(path)))

\* q lies below p: the segments of q begin with all the segments of p, and
\* there are more of them.
IsDescendant(q, p) ==
    /\ Len(Segments(p)) < Len(Segments(q))
    /\ SubSeq(Segments(q), 1, Len(Segments(p))) = Segments(p)

Expanded == {expandedPaths[i] : i \in DOMAIN expandedPaths}

\* C15: onNodeCollapsed(p) removes the cache entry of p and of every cached
\* path below p, segment by segment, and leaves every other entry as it was.
C15_CollapseEvictsSubtreeOnly ==
    [][\A p \in TrackedPaths :
          lastEvent' = [op |-> "collapse", path |-> p, cached |-> DOMAIN metadataCache]
          => metadataCache' =
                [q \in {k \in DOMAIN metadataCache : k # p /\ ~IsDescendant(k, p)}
                   |-> metadataCache[q]]]_vars

\* "p" was collapsed while p, p2 and p.a were cached: p2 alone is left.
C15_Witness ==
    /\ lastEvent.op = "collapse" /\ lastEvent.path = <<"p">>
    /\ {<<"p">>, <<"p", "2">>, <<"p", ".", "a">>} \subseteq lastEvent.cached
    /\ DOMAIN metadataCache = {<<"p", "2">>}

\* C16: after onNodeCollapsed(p), neither p nor any path below p is in the
\* expansion set.
C16_CollapseUntracksSubtree ==
    lastEvent.op = "collapse"
    => \A q \in Expanded : q # lastEvent.path /\ ~IsDescendant(q, lastEvent.path)

\* C17: every path of the expansion set that has a parent has its parent
\* in the expansion set too.
C17_ParentOfExpandedIsTracked ==
    \A q \in Expanded :
        Len(Segments(q)) > 1
        => \E p \in Expanded :
              Segments(p) = SubSeq(Segments(q), 1, Len(Segments(q)) - 1)

\* C18: smartRefresh() re-issues the fetch of every expanded path, and the
\* fetch of a path with more segments before that of a path with fewer.
C18_DeepestRefetchedFirst ==
    lastEvent.op = "smartRefresh"
    => \A a, b \in Expanded :
          Len(Segments(a)) > Len(Segments(b))
          => \E i, j \in DOMAIN refetched :
                i < j /\ refetched[i] = a /\ refetched[j] = b

\* p was expanded before p.a and p.a before p.a.b, and the smart refresh
\* re-fetched them in the opposite order.
C18_Witness ==
    /\ lastEvent.op = "smartRefresh"
    /\ expandedPaths = << <<"p">>, <<"p", ".", "a">>, <<"p", ".", "a", ".", "b">> >>
    /\ refetched = << <<"p", ".", "a", ".", "b">>, <<"p", ".", "a">>, <<"p">> >>

\* C19: after smartRefresh() no path outside the expansion set has a cache
\* entry, and no fetch was re-issued for a path outside the expansion set.
C19_CollapsedEvictedNotRefetched ==
    lastEvent.op = "smartRefresh"
    => /\ \A q \in DOMAIN metadataCache : q \in Expanded
       /\ \A i \in DOMAIN refetched : refetched[i] \in Expanded

\* A smart refresh ran while p2 was cached and not expanded, and p was
\* expanded: p2 has no entry any more and p alone was re-fetched.
C19_Witness ==
    /\ lastEvent.op = "smartRefresh"
    /\ <<"p", "2">> \in lastEvent.cached /\ <<"p", "2">> \notin Expanded
    /\ <<"p", "2">> \notin DOMAIN metadataCache
    /\ refetched = << <<"p">> >>

\* ---------------------------------------------------------------- C20
\* C20: when refresh() has run, every cache is empty: the prefetch cache,
\* the per-path last-known-good entries and the node caches reachable from
\* the root (there is no root node any more), and the expansion set is
\* empty.
C20_RefreshClearsEverything ==
    [][Refresh(MaxCalls + 1) =>
          /\ prefetchCache' = << >>
          /\ lastGoodChildren' = << >>
          /\ rootNode' = FALSE
          /\ expandedPaths' = <<>>]_vars

\* What refresh() does clear: the prefetch cache, the index of known paths
\* and the root node.
C20_RefreshClearsPrefetchAndRoot ==
    [][Refresh(MaxCalls + 1) =>
          /\ prefetchCache' = << >>
          /\ rootNode' = FALSE]_vars


\* ---------------------------------------------------------------- C21
\* C21: a burst of file events, each less than debounceMs after the one
\* before, triggers exactly one refresh, debounceMs after its last event:
\* the watcher refreshes only at that instant and only once, it has not
\* refreshed while the window of the last event is open, and it has
\* refreshed once when the window is over.
C21_OneRefreshAfterBurst ==
    /\ [][watched'.refreshes > watched.refreshes =>
             /\ watched.last >= 0
             /\ now = watched.last + DebounceMs
             /\ watched.refreshes = 0
             /\ watched'.last = watched.last]_vars
    /\ [](watched.last >= 0 =>
             /\ now < watched.last + DebounceMs => watched.refreshes = 0
             /\ now > watched.last + DebounceMs => watched.refreshes = 1)

\* A burst of three events has been answered by its one refresh.
C21_Witness ==
    /\ watched.burst = 3
    /\ watched.refreshes = 1
    /\ now = watched.last + DebounceMs

\* ---------------------------------------------------------------- C22
\* C22: getCachedChildren returns the cached children iff children are
\* cached and now - timestamp <= 60000, and nothing otherwise; and a call
\* of getChildren(element) that finds them returns them, filtered, without
\* issuing an evaluator query.
CachedAndFresh(node) ==
    /\ node.cache.defined
    /\ node.cache.hasChildren
    /\ now - node.cache.timestamp <= 60000

C22_FreshCacheServedWithoutQuery ==
    /\ [](\A path \in DOMAIN nodes :
            getCachedChildren(nodes[path], now) =
                IF CachedAndFresh(nodes[path])
                THEN [hit |-> TRUE, children |-> nodes[path].cache.children]
                ELSE [hit |-> FALSE, children |-> <<>>])
    /\ [][\A path \in Elems :
            (GetChildren(Elem(path), MaxCalls) /\ CachedAndFresh(nodes[path]))
            => LET c == Len(calls') IN
               /\ calls'[c].pc = "done"
               /\ calls'[c].ret = applyFilter(nodes[path].cache.children)
               /\ calls'[c].issued = <<>>
               /\ runnerVars' = runnerVars]_vars

\* getChildren has just served children that are exactly 60000 ms old.
C22_Witness ==
    \E c \in DOMAIN calls :
        /\ calls[c].pc = "done"
        /\ calls[c].issued = <<>>
        /\ calls[c].ret # <<>>
        /\ CachedAndFresh(nodes[calls[c].path])
        /\ now - nodes[calls[c].path].cache.timestamp = 60000

\* ---------------------------------------------------------------- C23
\* C23: when a call of getChildren reads the failure of a query for its
\* path, it spawns no further evaluator process for the path: the call
\* issues no other query and is over.
C23_NoQueryAfterFailure ==
    [][\A c \in DOMAIN calls :
          (Continue(c) /\ ~reqs[calls[c].req].success)
          => /\ calls'[c].issued = calls[c].issued
             /\ calls'[c].pc = "done"]_vars

\* What holds: no call issues a query of the same kind twice, and the
\* failure of any query but isDerivation ends the call.
C23_NoRetryOfFailedQuery ==
    /\ [](\A c \in DOMAIN calls : \A i, j \in DOMAIN calls[c].issued :
             calls[c].issued[i] = calls[c].issued[j] => i = j)
    /\ [][\A c \in DOMAIN calls :
             (Continue(c) /\ ~reqs[calls[c].req].success /\ calls[c].pc # "isDrv")
             => /\ calls'[c].issued = calls[c].issued
                /\ calls'[c].pc = "done"]_vars

\* ---------------------------------------------------------------- C24
\* C24: while flakePath is empty, a call of getChildren, for the root
\* level or for a node, returns the empty list and spawns no evaluator
\* process; and when activate() finds no workspace folder it shows the
\* error once and sets up no runner, provider or watcher: nothing runs
\* afterwards.
GetChildrenOf(elem) == GetChildren(elem, MaxCalls)

C24_NoRootNoQueries ==
    /\ [][\A elem \in {RootElem} \cup {Elem(path) : path \in Elems} :
             (GetChildrenOf(elem) /\ flakePath = "")
             => LET c == Len(calls') IN
                /\ calls'[c].pc = "done"
                /\ calls'[c].ret = <<>>
                /\ calls'[c].issued = <<>>
                /\ runnerVars' = runnerVars]_vars
    /\ [](activation.state = "failed" =>
             /\ activation.errors = 1
             /\ reqs = << >> /\ procs = << >> /\ calls = <<>>
             /\ ~debounceTimer.armed)
    /\ [][activation.state = "failed" => UNCHANGED vars]_vars

\* getChildren has answered with the empty list while flakePath is empty.
C24_Witness ==
    /\ flakePath = ""
    /\ activation.state = "active"
    /\ \E c \in DOMAIN calls :
          calls[c].pc = "done" /\ calls[c].ret = <<>> /\ calls[c].issued = <<>>

\* activate() has found no workspace folder.
C24_WitnessNoFolder == activation.state = "failed" /\ activation.errors = 1

\* ---------------------------------------------------------------- C25
\* The index segments among the parts of a path: the text between the
\* brackets of each, in the order of the path.
IndexTexts == { <<"0">>, <<"3">>, <<"1", "2">> }
IsIndexSegment(part) == \E t \in IndexTexts : part = <<"[">> \o t \o <<"]">>
IndexSegmentsOf(parts) ==
    LET at == SelectSeq(parts, IsIndexSegment)
    IN  [i \in DOMAIN at |-> SubSeq(at[i], 2, Len(at[i]) - 1)]

\* Element access i1 on x, then i2 on that result, and so on.
RECURSIVE Nested(_)
Nested(indexTexts) ==
    IF indexTexts = <<>> THEN <<"x">>
    ELSE <<"(", "builtins.elemAt", " ">>
         \o Nested(SubSeq(indexTexts, 1, Len(indexTexts) - 1))
         \o <<" ">> \o indexTexts[Len(indexTexts)] \o <<")">>

\* The accessor in the apply expression buildEvalArgs has built: what
\* follows `x: ` or `x: let v = `, up to the end or to the `;`.
AccessorOf(args) ==
    LET from == IF args.fullApply[4] = "let" THEN 10 ELSE 4
        to == IF \E i \in DOMAIN args.fullApply : args.fullApply[i] = ";"
              THEN (CHOOSE i \in DOMAIN args.fullApply : args.fullApply[i] = ";") - 1
              ELSE Len(args.fullApply)
    IN  SubSeq(args.fullApply, from, to)

RECURSIVE BeforeFirstIndex(_)
BeforeFirstIndex(parts) ==
    IF parts = <<>> \/ IsIndexSegment(Head(parts)) THEN <<>>
    ELSE <<Head(parts)>> \o BeforeFirstIndex(Tail(parts))

\* The flake reference for a base path, `.#${basePath}` or `.`.
FlakeRefOf(baseParts) ==
    IF join(baseParts) = <<>> THEN <<".">> ELSE <<".", "#">> \o join(baseParts)

\* C26: for a path with an index segment, the base reference handed to the
\* evaluator is made of exactly the name segments before the first index
\* segment; a name after an index segment is not part of it.
C26_BaseIsNamesBeforeFirstIndex ==
    (evalArgs # NoEvalArgs /\ IndexSegmentsOf(attrPathParts) # <<>>)
    => evalArgs.flakeRef = FlakeRefOf(BeforeFirstIndex(attrPathParts))

\* What holds: the base is as claimed where no name follows an index.
C26_BaseWhereIndicesComeLast ==
    (/\ evalArgs # NoEvalArgs
     /\ IndexSegmentsOf(attrPathParts) # <<>>
     /\ \A i \in DOMAIN attrPathParts :
           i > Len(BeforeFirstIndex(attrPathParts)) => IsIndexSegment(attrPathParts[i]))
    => evalArgs.flakeRef = FlakeRefOf(BeforeFirstIndex(attrPathParts))

\* ---------------------------------------------------------------- C27
\* The children are one expandable attrset child per name, in ascending
\* order of name.
OnePerNameAscending(children, names) ==
    /\ Len(children) = Cardinality({names[i] : i \in DOMAIN names})
    /\ {children[i].label : i \in DOMAIN children} = {names[i] : i \in DOMAIN names}
    /\ \A i \in DOMAIN children :
          children[i].nodeType = "attrset" /\ children[i].collapsible
    /\ \A i, j \in DOMAIN children :
          i < j => NameRank(children[i].label) < NameRank(children[j].label)

\* Call c is about to read the names the evaluator has returned for a
\* namespace: the top-level listing or the names of an attribute set.
ReadsNames(c) ==
    /\ Continue(c)
    /\ calls[c].kind = "getChildren"
    /\ calls[c].pc \in {"flakeShow", "attrNames"}
    /\ reqs[calls[c].req].success
    /\ reqs[calls[c].req].data.t = "json"

\* C27: whatever the order in which the evaluator returns the attribute
\* names of a namespace, the resolver yields exactly one expandable
\* Attrset child per name, in ascending alphabetical order.
C27_SortedAttrsetChildren ==
    [][\A c \in DOMAIN calls :
          ReadsNames(c) =>
             /\ calls'[c].pc = "done"
             /\ OnePerNameAscending(calls'[c].ret, reqs[calls[c].req].data.v)]_vars

\* The names came as y, x and the children are x, y.
C27_Witness ==
    \E c \in DOMAIN calls :
        /\ calls[c].pc = "done"
        /\ calls[c].issued # <<>>
        /\ calls[c].issued[Len(calls[c].issued)] = "attrNames"
        /\ flake.attrNames = <<"y", "x">>
        /\ Len(calls[c].ret) = 2
        /\ calls[c].ret[1].label = "x" /\ calls[c].ret[2].label = "y"
        /\ calls[c].ret[1].nodeType = "attrset"

\* ---------------------------------------------------------------- C28
\* Call c is about to read the elements the batched list query returned.
ReadsElements(c) ==
    /\ Continue(c)
    /\ calls[c].pc = "listElems"
    /\ reqs[calls[c].req].success
    /\ reqs[calls[c].req].data.t = "json"

\* C28: for the elements {index i, name, isDrv} the batched list query
\* returns for path x, the resolver yields one child per element, in the
\* order returned, with path x.[i]; the child is non-expandable iff isDrv
\* is true.
C28_ListChildrenPerElement ==
    [][\A c \in DOMAIN calls :
          ReadsElements(c) =>
             LET elements == reqs[calls[c].req].data.v
                 children == calls'[c].ret
             IN  /\ calls'[c].pc = "done"
                 /\ Len(children) = Len(elements)
                 /\ \A i \in DOMAIN elements :
                       /\ children[i].attrPath =
                              calls[c].path \o << <<"[0]", "[1]", "[2]">>[elements[i].index + 1] >>
                       /\ children[i].label = elements[i].name
                       /\ children[i].collapsible <=> ~elements[i].isDrv]_vars

\* A list of a derivation and a plain element has been resolved.
C28_Witness ==
    \E c \in DOMAIN calls :
        /\ calls[c].pc = "done"
        /\ calls[c].issued = <<"type", "listElems">>
        /\ Len(calls[c].ret) = 2
        /\ ~calls[c].ret[1].collapsible /\ calls[c].ret[1].nodeType = "derivation"
        /\ calls[c].ret[2].collapsible /\ calls[c].ret[2].nodeType = "listElement"

\* ---------------------------------------------------------------- C29
\* The step is run(..., k) or cancel(k) for process key k.
RunOrCancel(k) ==
    \/ \E c \in RunnerCalls, debounce \in BOOLEAN :
          processKeyOf(c[1], c[2]) = k /\ Run(c[1], c[2], debounce)
    \/ Cancel(k)

\* C29: run(..., k) and cancel(k) leave every other key k' alone: its entry
\* in activeProcesses and its processes are as before, none signaled or
\* removed, and so are its debounce timer and the call that waits for it.
C29_OtherKeysUntouched ==
    [][\A k \in RunnerKeys :
          RunOrCancel(k) =>
             \A other \in RunnerKeys \ {k} :
                /\ Entry(activeProcesses', other) = Entry(activeProcesses, other)
                /\ Entry(debounceTimers', other) = Entry(debounceTimers, other)
                /\ \A p \in DOMAIN procs :
                      procs[p].key = other => p \in DOMAIN procs' /\ procs'[p] = procs[p]
                /\ \A r \in DOMAIN reqs :
                      reqs[r].key = other => r \in DOMAIN reqs' /\ reqs'[r] = reqs[r]]_vars

\* A process has been canceled while one of another key runs on, still
\* registered.
C29_Witness ==
    \E p, q \in DOMAIN procs :
        /\ procs[p].key # procs[q].key
        /\ procs[p].by = "cancel"
        /\ procs[q].st = "running" /\ ~procs[q].killed
        /\ procs[q].key \in DOMAIN activeProcesses
        /\ activeProcesses[procs[q].key] = q

\* ---------------------------------------------------------------- C30
\* Prefix and infix of strings, and the lower-case form of the symbols in
\* use.
IsPrefix(p, str) == \E rest \in 0..Len(str) : Len(p) + rest = Len(str) /\ \A i \in DOMAIN p : str[i] = p[i]
IsInfix(sub, str) ==
    \E before \in 0..Len(str) :
        /\ before + Len(sub) <= Len(str)
        /\ \A i \in DOMAIN sub : str[before + i] = sub[i]
Lower(str) ==
    [i \in DOMAIN str |-> IF str[i] = "A" THEN "a" ELSE IF str[i] = "B" THEN "b" ELSE str[i]]

\* The path relative to the root path: what follows `root.`, nothing for
\* the root itself, the path as it is elsewhere.
RelativeToRoot(path) ==
    IF rootPath # <<>> /\ IsPrefix(rootPath \o <<".">>, path)
    THEN [i \in 1..(Len(path) - Len(rootPath) - 1) |-> path[Len(rootPath) + 1 + i]]
    ELSE IF rootPath # <<>> /\ path = rootPath THEN <<>>
    ELSE path

\* The child is one the filter keeps.
Kept(child) ==
    LET f == Lower(filterPath)
        rel == Lower(RelativeToRoot(child.attrPath))
        label == Lower(child.label)
    IN  \/ rel = f
        \/ IsPrefix(rel \o <<".">>, f)
        \/ IsPrefix(f, rel)
        \/ IsInfix(f, label)
        \/ IsInfix(label, f)

\* C30: applyFilter returns the children unchanged when the filter is
\* empty; with a filter f it keeps exactly the children whose relative
\* path, without regard to case, equals f, is an ancestor of f or starts
\* with f, or whose label contains f or is contained in f, in their order
\* and with nothing added.
C30_FilterKeepsMatching ==
    filtered.done =>
        /\ filterPath = <<>> => filtered.children = unfiltered
        /\ filterPath # <<>> => filtered.children = SelectSeq(unfiltered, Kept)

\* The filter A has kept a.b below the root path cfg and dropped c.
C30_Witness ==
    /\ filtered.done
    /\ filterPath = <<"A">>
    /\ rootPath = <<"cfg">>
    /\ unfiltered = << FilterNode(<<"c">>, <<"cfg", ".", "c">>),
                       FilterNode(<<"b">>, <<"cfg", ".", "a", ".", "b">>) >>
    /\ filtered.children = << FilterNode(<<"b">>, <<"cfg", ".", "a", ".", "b">>) >>

\* ---------------------------------------------------------------- C31
\* A name segment: not empty, without dots and brackets.
IsNameSegment(part) ==
    /\ part # <<>>
    /\ \A i \in DOMAIN part : part[i] \notin {".", "[", "]"}

\* A path in display form: name segments and bracketed index segments.
ValidParts(parts) ==
    /\ parts # <<>>
    /\ \A i \in DOMAIN parts : IsNameSegment(parts[i]) \/ matchIndex(parts[i])

\* C31: splitting a valid display-form path into segments and joining the
\* segments with dots gives the path again, and every segment comes back as
\* it was written: an index segment [n] as the one bracketed segment [n],
\* which is not the name segment n.
C31_SplitJoinRoundTrip ==
    (segments.done /\ ValidParts(attrPathParts))
    => /\ join(segments.parts) = join(attrPathParts)
       /\ segments.parts = attrPathParts
       /\ \A i \in DOMAIN attrPathParts :
             matchIndex(attrPathParts[i])
             => /\ segments.parts[i] = attrPathParts[i]
                /\ segments.parts[i] # SubSeq(attrPathParts[i], 2, Len(attrPathParts[i]) - 1)

\* a.[3].3 has been split into a, [3] and 3.
C31_Witness ==
    /\ attrPathParts = << <<"a">>, <<"[", "3", "]">>, <<"3">> >>
    /\ segments.done
    /\ segments.parts = << <<"a">>, <<"[", "3", "]">>, <<"3">> >>

\* ---------------------------------------------------------------- C32
\* A part whose brackets do not match: a "[" that is not closed or a "]"
\* that was not opened.
Unmatched(part) ==
    \/ \E i \in DOMAIN part :
          part[i] = "[" /\ \A j \in (i + 1)..Len(part) : part[j] # "]"
    \/ \E i \in DOMAIN part :
          part[i] = "]" /\ \A j \in 1..(i - 1) : part[j] # "["

\* A path with an empty segment (a..b, a trailing or leading dot) or with an
\* unmatched bracket (a.[3). The empty path, one empty part, is the root.
MalformedParts(parts) ==
    \/ Len(parts) > 1 /\ \E i \in DOMAIN parts : parts[i] = <<>>
    \/ \E i \in DOMAIN parts : Unmatched(parts[i])

\* C32: for a path with an unmatched bracket or an empty segment no
\* arguments of an evaluator query are built: parsing fails instead.
C32_MalformedPathIssuesNoQuery ==
    MalformedParts(attrPathParts) => evalArgs = NoEvalArgs

\* ---------------------------------------------------------------- C33
\* C33: in every reachable state, every process that was spawned and has
\* neither closed nor been sent SIGTERM is the process registered in
\* activeProcesses under its key, where cancel(key) and cancelAll() find it;
\* the close or error handler of an earlier process of the key does not
\* take the entry of a newer one away.
C33_LiveProcessesRegistered ==
    \A p \in DOMAIN procs :
        (procs[p].st = "running" /\ ~procs[p].killed)
        => /\ procs[p].key \in DOMAIN activeProcesses
           /\ activeProcesses[procs[p].key] = p

\* ---------------------------------------------------------------- C34
\* C34: every call of run() eventually has its promise settled, with a
\* success or a failure, when pending timers fire and spawned processes
\* close; a call superseded or canceled in its debounce window included.
C34_EveryCallSettles ==
    \A r \in 1..MaxReq :
        [](r \in DOMAIN reqs => <>(r \in DOMAIN reqs /\ reqs[r].settled))

\* What holds: a call for which a process was spawned is settled.
C34_SpawnedCallSettles ==
    \A r \in 1..MaxReq :
        []((r \in DOMAIN reqs /\ SpawnedFor(r) # {})
           => <>(r \in DOMAIN reqs /\ reqs[r].settled))

\* Why such a call never settles, whatever happens later: a debounced call
\* whose timer was cleared before it fired has no process, and stays
\* unsettled and without a process in every step.
C34_ClearedCallStaysPending ==
    [][\A r \in DOMAIN reqs :
          (reqs[r].timer = "cleared" /\ ~reqs[r].settled /\ SpawnedFor(r) = {})
          => /\ r \in DOMAIN reqs'
             /\ reqs'[r].timer = "cleared" /\ ~reqs'[r].settled
             /\ {p \in DOMAIN procs' : procs'[p].req = r} = {}]_vars

\* ---------------------------------------------------------------- C35
\* C35: a prefetch task that was in flight when refresh() ran writes
\* nothing into prefetchCache or lastGoodChildren afterwards.
C35_NoPreRefreshPrefetchWrites ==
    [][\A c \in DOMAIN calls :
          (Continue(c) /\ calls[c].kind = "prefetch" /\ calls[c].preRefresh)
          => /\ prefetchCache' = prefetchCache
             /\ lastGoodChildren' = lastGoodChildren]_vars

\* ---------------------------------------------------------------- C36
Deactivated == activation.state = "deactivated"

\* The processes that have not closed.
RunningProcs(ps) == {p \in DOMAIN ps : ps[p].st = "running"}

\* C36: once deactivate() has run, the watcher's debounce timer triggers no
\* refresh, no nix process is spawned, and no process runs that has not
\* been sent SIGTERM.
C36_NothingGoesOnAfterDeactivate ==
    /\ [][Deactivated =>
            /\ ~WatchRefresh
            /\ Cardinality(RunningProcs(procs')) <= Cardinality(RunningProcs(procs))]_vars
    /\ [](Deactivated => \A p \in RunningProcs(procs) : procs[p].killed)

\* What holds: the debounce timer that was pending at deactivation triggers
\* no refresh, and the processes registered at deactivation have been sent
\* SIGTERM when deactivate() returns.
C36_TimerAndRegisteredProcessesStopped ==
    /\ [][Deactivated => ~WatchRefresh]_vars
    /\ [][Deactivate =>
            /\ ~debounceTimer'.armed
            /\ \A k \in DOMAIN activeProcesses :
                  procs'[activeProcesses[k]].killed]_vars

\* ---------------------------------------------------------------- C37
\* C37: in every reachable state the suggestions shown are derived from the
\* query of the last search change only: its local results, alone or merged
\* with completion results that were fetched for that same query.
C37_OnlyLatestQueryShown ==
    /\ \A s \in shown : s.query = search.query
    /\ Suggestion("local", search.query) \in shown \/ shown = {}

\* A completion request for an earlier query has come back with results
\* after the search changed, and another request for the new query is on
\* its way.
C37_Witness ==
    \E r1, r2 \in DOMAIN search.requests :
        /\ search.requests[r1].query # search.query
        /\ search.requests[r1].aborted /\ search.requests[r1].answer = "results"
        /\ search.requests[r2].query = search.query
        /\ ~search.requests[r2].aborted /\ ~search.requests[r2].done
        /\ shown = localSuggestions(search.query)

\* ---------------------------------------------------------------- C38
\* The relative forms of the paths the tree provider knows.
KnownRelative == {relativePath(path) : path \in knownPaths}

\* The paths the path tree offers below some parent.
TreePaths == UNION {pathTree[parent] : parent \in DOMAIN pathTree}

\* C38: in every reachable state, every path in the search index, in
\* allPaths and in pathTree, is the relative form of a path that is in the
\* tree provider's knownPaths: after refresh() has cleared knownPaths the
\* index offers only paths indexed again since.
C38_IndexWithinKnownPaths ==
    /\ allPaths \subseteq KnownRelative
    /\ TreePaths \subseteq KnownRelative

\* What holds: the index has the relative form of every known path other
\* than the root path, and nothing is ever taken out of it.
C38_KnownPathsAreIndexed ==
    /\ [](\A path \in knownPaths : relativePath(path) # <<>> =>
             /\ relativePath(path) \in allPaths
             /\ relativePath(path) \in TreePaths)
    /\ [][allPaths \subseteq allPaths' /\ TreePaths \subseteq TreePaths']_vars

\* ---------------------------------------------------------------- C39
\* The smaller of two numbers.
Least(a, b) == IF a < b THEN a ELSE b

\* The n most recent of the updates since the last clear(), newest first.
MostRecent(n) ==
    LET all == updates.sinceClear
    IN  [i \in 1..Least(n, Len(all)) |-> all[Len(all) - i + 1]]

\* C39: after any sequence of updateStatus and clear calls, statusHistory
\* has at most 50 entries, they are the most recent min(50, n) of the n
\* updates since the last clear, newest first, and a status message posted
\* to the webview carries the most recent updates, at most 10 of them.
C39_HistoryCappedNewestFirst ==
    /\ Len(statusHistory) <= 50
    /\ statusHistory = MostRecent(50)
    /\ posted.type = "status" =>
          /\ Len(posted.updates) <= 10
          /\ posted.updates = MostRecent(10)

\* More than 50 updates since the last clear: the history holds 50, the
\* oldest of them the second update, and the 10 newest have been posted.
C39_Witness ==
    /\ Len(updates.sinceClear) = 51
    /\ updates.issued > 51
    /\ Len(statusHistory) = 50
    /\ statusHistory[1] = updates.sinceClear[51]
    /\ statusHistory[50] = updates.sinceClear[2]
    /\ posted.type = "status"
    /\ Len(posted.updates) = 10
    /\ posted.updates[10] = updates.sinceClear[42]

====
